---- MODULE Spec2Model ----
(***************************************************************************)
(* State-machine model of pages/api/analyze-medical-data.js: the analysis  *)
(* request pipeline (validation, per-file extraction, prompt composition,  *)
(* retryWithBackoff, response translation, transient-file cleanup).        *)
(*                                                                         *)
(* Text is modelled as a sequence of tokens.  A token is either a single   *)
(* character (file names, duration strings, patient names) or one chunk of *)
(* a template literal of the source.  Concatenation is \o.                 *)
(* A JS value that may be undefined is a record [def, v].                  *)
(***************************************************************************)
EXTENDS Integers, Sequences, FiniteSets, TLC

(* ------------------------------ bounds --------------------------------- *)
\* largest number of files in one submission
MaxFiles == 2

(* --------------------------- JS value helpers -------------------------- *)
Undefined == [def |-> FALSE, v |-> <<>>]
Some(t) == [def |-> TRUE, v |-> t]

\* JS truthiness of a string-or-undefined value: undefined and "" are falsy
Truthy(o) == o.def /\ o.v # <<>>

\* a || b on string-or-undefined values, rendered into a template literal
OrElse(o, dflt) == IF Truthy(o) THEN o.v ELSE dflt

\* `${x}` of a string-or-undefined value
Interpolate(o) == IF o.def THEN o.v ELSE <<"undefined">>

\* the result of parseInt on text that does not start with a digit
NaN == -1

Digits == <<"0", "1", "2", "3", "4", "5", "6", "7", "8", "9">>
IsDigit(c) == \E d \in 1..10 : Digits[d] = c
DigitVal(c) == (CHOOSE d \in 1..10 : Digits[d] = c) - 1

RECURSIVE ParseDigits(_, _, _)
ParseDigits(t, i, acc) ==
  IF i > Len(t) \/ ~IsDigit(t[i]) THEN acc
  ELSE ParseDigits(t, i + 1, acc * 10 + DigitVal(t[i]))

\* parseInt(t): the leading run of decimal digits, NaN when there is none
parseInt(t) == IF Len(t) = 0 \/ ~IsDigit(t[1]) THEN NaN ELSE ParseDigits(t, 1, 0)

\* t.replace(c, ''): removes the first occurrence of the character c only
ReplaceFirst(t, c) ==
  IF \E i \in 1..Len(t) : t[i] = c
  THEN LET k == CHOOSE i \in 1..Len(t) : t[i] = c /\ \A j \in 1..(i - 1) : t[j] # c
       IN SubSeq(t, 1, k - 1) \o SubSeq(t, k + 1, Len(t))
  ELSE t

\* Math.max, Math.pow and products on numbers that may be NaN
MathMax(a, b) == IF a = NaN \/ b = NaN THEN NaN ELSE IF a >= b THEN a ELSE b
Times(a, b) == IF a = NaN \/ b = NaN THEN NaN ELSE a * b
RECURSIVE Pow2(_)
Pow2(n) == IF n <= 0 THEN 1 ELSE 2 * Pow2(n - 1)

\* Math.ceil(n / 60)
CeilDiv60(n) == IF n = NaN THEN NaN ELSE (n + 59) \div 60
NumText(n) == IF n = NaN THEN "NaN" ELSE ToString(n)

Whitespace == {" ", "\n", "\t"}
RECURSIVE TrimLeft(_)
TrimLeft(t) == IF t # <<>> /\ t[1] \in Whitespace THEN TrimLeft(Tail(t)) ELSE t
RECURSIVE TrimRight(_)
TrimRight(t) ==
  IF t # <<>> /\ t[Len(t)] \in Whitespace THEN TrimRight(SubSeq(t, 1, Len(t) - 1)) ELSE t
\* String.prototype.trim
Trim(t) == TrimRight(TrimLeft(t))

Upper == <<"A", "B", "C", "D", "E", "F", "G", "J", "M", "N", "P", "T", "X">>
Lower == <<"a", "b", "c", "d", "e", "f", "g", "j", "m", "n", "p", "t", "x">>
LowerChar(c) ==
  IF \E k \in 1..Len(Upper) : Upper[k] = c
  THEN Lower[CHOOSE k \in 1..Len(Upper) : Upper[k] = c]
  ELSE c
\* String.prototype.toLowerCase
toLowerCase(t) == [i \in 1..Len(t) |-> LowerChar(t[i])]

\* filename.split('.').pop(): the text after the last '.', the whole text
\* when there is no '.'
SplitPop(t) ==
  IF \E i \in 1..Len(t) : t[i] = "."
  THEN LET k == CHOOSE i \in 1..Len(t) : t[i] = "." /\ \A j \in (i + 1)..Len(t) : t[j] # "."
       IN SubSeq(t, k + 1, Len(t))
  ELSE t

(* ------------------------------ getMimeType ---------------------------- *)
OctetStream == <<"application/", "octet-stream">>

\* mimeTypes is an object literal, so mimeTypes[ext] also finds the properties
\* every object inherits; these are the ones spelled in lower case, the only
\* ones a lower-cased extension can name.  Their values are not strings.
ObjectPrototypeKeys ==
  { <<"c", "o", "n", "s", "t", "r", "u", "c", "t", "o", "r">>,
    <<"_", "_", "p", "r", "o", "t", "o", "_", "_">> }
NotAString == <<"[object]">>

\* mimeTypes[ext] || 'application/octet-stream'
mimeTypes(ext) ==
  IF ext = <<"p", "d", "f">> THEN <<"application/", "pdf">>
  ELSE IF ext = <<"j", "p", "g">> THEN <<"image/", "jpeg">>
  ELSE IF ext = <<"j", "p", "e", "g">> THEN <<"image/", "jpeg">>
  ELSE IF ext = <<"p", "n", "g">> THEN <<"image/", "png">>
  ELSE IF ext = <<"d", "c", "m">> THEN <<"application/", "dicom">>
  ELSE IF ext \in ObjectPrototypeKeys THEN NotAString
  ELSE OctetStream

getMimeType(filename) == mimeTypes(SplitPop(toLowerCase(filename)))

\* mimeType.startsWith('image/')
IsImageMime(m) == m[1] = "image/"
IsPdfMime(m) == m = <<"application/", "pdf">>

\* fileToBase64: the base64 encoding of the file's bytes
fileToBase64(content) == <<"base64[">> \o content \o <<"]">>

\* pdf(fileBuffer).text: the text of the document without its PDF framing
PdfFraming == {"%PDF-1.4", "%%EOF"}
PdfText(content) == SelectSeq(content, LAMBDA tok : tok \notin PdfFraming)

(* ------------------------------- inputs -------------------------------- *)
\* an uploaded file as the multipart parser hands it over; fault says which
\* external routine fails on it: "read" = fs.readFileSync throws,
\* "pdf" = pdf-parse throws, "none" = both work
File(name, content, fault) ==
  [originalFilename |-> name, content |-> content, fault |-> fault]

UploadedFileKinds ==
  { File(<<"a", ".", "J", "P", "G">>, <<"px1">>, "none"),
    File(<<"b", ".", "p", "n", "g">>, <<"px2">>, "read"),
    File(<<"r", ".", "p", "d", "f">>, <<"%PDF-1.4", "Hb 9", "%%EOF">>, "none"),
    File(<<"e", ".", "p", "d", "f">>, <<"%PDF-1.4", "garbled">>, "pdf"),
    File(<<"n", ".", "t", "x", "t">>, <<"note">>, "none") }

RECURSIVE SeqsUpTo(_, _)
SeqsUpTo(S, n) ==
  IF n = 0 THEN {<<>>}
  ELSE LET shorter == SeqsUpTo(S, n - 1)
       IN shorter \cup {Append(q, x) : q \in shorter, x \in S}

FileLists == SeqsUpTo(UploadedFileKinds, MaxFiles)

PatientInfo(name, age, gender, symptoms, urgency) ==
  [def |-> TRUE, name |-> name, age |-> age, gender |-> gender,
   symptoms |-> symptoms, urgency |-> urgency]
NoPatientInfo ==
  [def |-> FALSE, name |-> Undefined, age |-> Undefined, gender |-> Undefined,
   symptoms |-> Undefined, urgency |-> Undefined]

Location(city, country) == [def |-> TRUE, city |-> city, country |-> country]
NoLocation == [def |-> FALSE, city |-> Undefined, country |-> Undefined]

\* data.medicalData: an array of texts, absent (undefined or null), or a
\* defined value that is not an array (a JSON string, number or object)
Tests(v) == [def |-> TRUE, array |-> TRUE, v |-> v]
NoTests == [def |-> FALSE, array |-> FALSE, v |-> <<>>]
NotAnArray == [def |-> TRUE, array |-> FALSE, v |-> <<>>]

Data(pi, md, loc) == [patientInfo |-> pi, medicalData |-> md, location |-> loc]

FullFields(name) ==
  Data(PatientInfo(name, Some(<<"4", "2">>), Some(<<"male">>), Some(<<"cough">>),
                   Some(<<"high">>)),
       Tests(<< <<"CBC">>, <<"MRI">> >>),
       Location(Some(<<"Pune">>), Some(<<"India">>)))
BareFields(name) ==
  Data(PatientInfo(name, Undefined, Undefined, Undefined, Undefined),
       NoTests, NoLocation)

\* a submission whose medicalData is the JSON string "CBC"
ScalarTests(name) ==
  Data(PatientInfo(name, Undefined, Undefined, Undefined, Undefined),
       NotAnArray, NoLocation)

\* the decoded `data` field of the form: the submissions the model draws from
Submissions ==
  { FullFields(Some(<<"A", "l">>)),
    BareFields(Some(<<"B", "o">>)),
    FullFields(Some(<<" ", " ">>)),
    BareFields(Some(<<>>)),
    FullFields(Undefined),
    ScalarTests(Some(<<"A", "l">>)),
    Data(NoPatientInfo, NoTests, NoLocation) }

\* how the `data` field parses: "ok", or "invalid" when fields.data is missing,
\* is not JSON, or is JSON without properties (null)
DataKinds == {"ok", "invalid"}

Methods == {"POST", "GET"}

(* --------------------------- remote outcomes --------------------------- *)
RetryInfoType == "type.googleapis.com/google.rpc.RetryInfo"
QuotaFailureType == "type.googleapis.com/google.rpc.QuotaFailure"

RetryInfo(d) == [type |-> RetryInfoType, retryDelay |-> Some(d), quotaIds |-> <<>>]
QuotaFailure(ids) == [type |-> QuotaFailureType, retryDelay |-> Undefined, quotaIds |-> ids]

\* an error as thrown: status may be absent, errorDetails may be absent
Error(hasStatus, status, msg, hasDetails, details) ==
  [hasStatus |-> hasStatus, status |-> status, message |-> msg,
   hasDetails |-> hasDetails, errorDetails |-> details]
NoError == Error(FALSE, 0, "", FALSE, <<>>)

RemoteErrors ==
  { Error(TRUE, 429, "quota", TRUE, <<QuotaFailure(<< <<"Requests", "PerDay">> >>)>>),
    Error(TRUE, 429, "quota", TRUE,
          <<QuotaFailure(<< <<"Requests", "PerMinute">> >>), RetryInfo(<<"7", ".", "5", "s">>)>>),
    Error(TRUE, 503, "overloaded", FALSE, <<>>),
    Error(TRUE, 500, "internal", TRUE, <<RetryInfo(<<"3", "1", "s">>)>>),
    Error(TRUE, 404, "no such model", FALSE, <<>>),
    Error(FALSE, 0, "fetch failed", FALSE, <<>>) }

\* what one call of generateContent does: resolve with a readable answer,
\* resolve with an answer whose text() throws, or reject with an error
Outcome(kind, err) == [kind |-> kind, error |-> err]
RemoteOutcomes ==
  {Outcome("ok", NoError), Outcome("blocked", NoError)}
    \cup {Outcome("error", e) : e \in RemoteErrors}

ParseError == Error(FALSE, 0, "maxFileSize exceeded", FALSE, <<>>)
TextError == Error(FALSE, 0, "response was blocked", FALSE, <<>>)

\* error.errorDetails?.find(detail => detail['@type'] === type)
FindDetail(e, type) ==
  IF e.hasDetails /\ \E i \in 1..Len(e.errorDetails) : e.errorDetails[i].type = type
  THEN LET k == CHOOSE i \in 1..Len(e.errorDetails) :
                  /\ e.errorDetails[i].type = type
                  /\ \A j \in 1..(i - 1) : e.errorDetails[j].type # type
       IN [def |-> TRUE, v |-> e.errorDetails[k]]
  ELSE [def |-> FALSE, v |-> RetryInfo(<<>>)]

\* error.errorDetails?.find(RetryInfo)?.retryDelay
ApiRetryDelay(e) ==
  LET d == FindDetail(e, RetryInfoType)
  IN IF d.def THEN d.v.retryDelay ELSE Undefined

(* ------------------------------- state --------------------------------- *)
VARIABLES
  req,                  \* the incoming request: method, form fields, files
  pc,                   \* position of the handler
  disk,                 \* indices of the uploaded files present in storage
  idx,                  \* loop index of the file loops (1-based)
  processedFiles,       \* processedFiles array
  extractedTextContent, \* extractedTextContent buffer
  enhancedPrompt,       \* enhancedPrompt document
  imageFiles,           \* processedFiles.filter(f => f.isImage)
  fn,                   \* the closure handed to retryWithBackoff
  maxRetries,           \* retryWithBackoff parameter
  baseDelay,            \* retryWithBackoff parameter
  attempt,              \* retryWithBackoff loop counter
  entered,              \* number of times retryWithBackoff was entered
  calls,                \* log of the remote calls made, in order
  waits,                \* log of the backoff waits scheduled, in order
  result,               \* what retryWithBackoff returned
  error,                \* the error caught by the handler's catch block
  res,                  \* the response: number sent, status, body
  page,                 \* the state of the page component that submits the form
  suspended             \* the other invocations of the handler in flight, with their locals

\* the variables of the API handler
handlerVars == <<req, pc, disk, idx, processedFiles, extractedTextContent,
                 enhancedPrompt, imageFiles, fn, maxRetries, baseDelay, attempt,
                 entered, calls, waits, result, error, res>>

vars == <<req, pc, disk, idx, processedFiles, extractedTextContent, enhancedPrompt,
          imageFiles, fn, maxRetries, baseDelay, attempt, entered, calls, waits,
          result, error, res, page, suspended>>

uploadedFiles == req.files

EmptyBody ==
  [keys |-> {}, error |-> "", message |-> <<>>, details |-> "", retryAfter |-> 0,
   upgradeInfo |-> "", analysis |-> "", timestamp |-> "", name |-> <<>>,
   filesUploaded |-> 0, filesAnalyzed |-> 0]

NoFn == [text |-> <<>>, imageParts |-> <<>>]

\* no alert() was shown yet; a message shown by alert() is a text
NoAlert == <<>>

\* the page component after construction (the useState defaults) with n
\* selected files and the patient name `name`; submits logs what each submit
\* event did, alert is the last alert() shown, fetches counts the requests
Page(n, name) ==
  [pc |-> "idle", uploadedFiles |-> n, patientName |-> name,
   analysisLoading |-> FALSE, analysisResult |-> "null", errorState |-> "null",
   closureErrorState |-> "null", submits |-> <<>>, alert |-> NoAlert,
   fetches |-> 0, lastFetch |-> [kind |-> "none", status |-> 0]]

\* the handler is entered with one of the requests of R and nothing done yet;
\* the page is one of Pages
InitWith(R, Pages) ==
  /\ req \in R
  /\ page \in Pages
  /\ suspended = <<>>
  /\ pc = "start"
  /\ disk = {}
  /\ idx = 0
  /\ processedFiles = <<>>
  /\ extractedTextContent = <<>>
  /\ enhancedPrompt = <<>>
  /\ imageFiles = <<>>
  /\ fn = NoFn
  /\ maxRetries = 0
  /\ baseDelay = 0
  /\ attempt = 0
  /\ entered = 0
  /\ calls = <<>>
  /\ waits = <<>>
  /\ result = "none"
  /\ error = NoError
  /\ res = [sent |-> 0, status |-> 0, body |-> EmptyBody]

Init ==
  InitWith([method : Methods, parse : {"ok", "throws"}, dataKind : DataKinds,
            data : Submissions, files : FileLists],
           {Page(0, <<>>)})

\* res.status(s).json(body)
Send(s, body) == [sent |-> res.sent + 1, status |-> s, body |-> body]

(* ------------------------- request validation -------------------------- *)
\* variant: the method is not checked
CheckMethod_NoCheck ==
  /\ pc = "start"
  /\ pc' = "parse"
  /\ UNCHANGED <<suspended, page, req, disk, idx, processedFiles, extractedTextContent, enhancedPrompt,
                 imageFiles, fn, maxRetries, baseDelay, attempt, entered, calls,
                 waits, result, error, res>>

\* if (req.method !== 'POST') return 405
CheckMethod ==
  /\ pc = "start"
  /\ IF req.method # "POST"
     THEN /\ res' = Send(405, [EmptyBody EXCEPT !.keys = {"error"},
                                                !.error = "Method not allowed"])
          /\ pc' = "done"
     ELSE /\ pc' = "parse"
          /\ UNCHANGED res
  /\ UNCHANGED <<suspended, page, req, disk, idx, processedFiles, extractedTextContent, enhancedPrompt,
                 imageFiles, fn, maxRetries, baseDelay, attempt, entered, calls,
                 waits, result, error>>

\* variant: a parser failure is answered like unparseable form data
FormParse_As400 ==
  /\ pc = "parse"
  /\ IF req.parse = "throws"
     THEN /\ \E kept \in SUBSET (1..Len(uploadedFiles)) : disk' = kept
          /\ res' = Send(400, [EmptyBody EXCEPT !.keys = {"error"},
                                                !.error = "Invalid form data format"])
          /\ pc' = "done"
     ELSE /\ disk' = 1..Len(uploadedFiles)
          /\ pc' = "json"
          /\ UNCHANGED res
  /\ UNCHANGED <<suspended, page, req, idx, processedFiles, extractedTextContent, enhancedPrompt,
                 imageFiles, fn, maxRetries, baseDelay, attempt, entered, calls,
                 waits, result, error>>

\* const [fields, files] = await form.parse(req): the parser stores every file
\* of the upload; when it throws, what it leaves in storage is its own affair
FormParse ==
  /\ pc = "parse"
  /\ IF req.parse = "throws"
     THEN /\ \E kept \in SUBSET (1..Len(uploadedFiles)) : disk' = kept
          /\ error' = ParseError
          /\ pc' = "catch"
     ELSE /\ disk' = 1..Len(uploadedFiles)
          /\ pc' = "json"
          /\ UNCHANGED error
  /\ UNCHANGED <<suspended, page, req, idx, processedFiles, extractedTextContent, enhancedPrompt,
                 imageFiles, fn, maxRetries, baseDelay, attempt, entered, calls,
                 waits, result, res>>

\* variant: the parse error is swallowed and the handler goes on
JsonParse_Swallow ==
  /\ pc = "json"
  /\ pc' = "validate"
  /\ UNCHANGED <<suspended, page, req, disk, idx, processedFiles, extractedTextContent, enhancedPrompt,
                 imageFiles, fn, maxRetries, baseDelay, attempt, entered, calls,
                 waits, result, error, res>>

\* JSON.parse(fields.data[0]) and the reads of data.*; any throw gives 400
JsonParse ==
  /\ pc = "json"
  /\ IF req.dataKind # "ok"
     THEN /\ res' = Send(400, [EmptyBody EXCEPT !.keys = {"error"},
                                                !.error = "Invalid form data format"])
          /\ pc' = "done"
     ELSE /\ pc' = "validate"
          /\ UNCHANGED res
  /\ UNCHANGED <<suspended, page, req, disk, idx, processedFiles, extractedTextContent, enhancedPrompt,
                 imageFiles, fn, maxRetries, baseDelay, attempt, entered, calls,
                 waits, result, error>>

\* variant: the file check tests the wrong thing and never rejects
NoFiles_Never(files) == Len(files) < 0

\* !files.files || files.files.length === 0
NoFiles(files) == Len(files) = 0

\* !patientInfo || !patientInfo.name
NoPatientName(patientInfo) == ~patientInfo.def \/ ~Truthy(patientInfo.name)

\* variant: the rejection of an empty file list does not return
Validate_NoReturn ==
  /\ pc = "validate"
  /\ IF NoFiles(uploadedFiles)
     THEN /\ res' = Send(400, [EmptyBody EXCEPT !.keys = {"error"},
                 !.error = "At least one medical report file is required"])
          /\ pc' = "files"
          /\ idx' = 1
     ELSE IF NoPatientName(req.data.patientInfo)
     THEN /\ res' = Send(400, [EmptyBody EXCEPT !.keys = {"error"},
                 !.error = "Patient information is required"])
          /\ pc' = "done"
          /\ UNCHANGED idx
     ELSE /\ pc' = "files"
          /\ idx' = 1
          /\ UNCHANGED res
  /\ UNCHANGED <<suspended, page, req, disk, processedFiles, extractedTextContent, enhancedPrompt,
                 imageFiles, fn, maxRetries, baseDelay, attempt, entered, calls,
                 waits, result, error>>

\* the two required-field checks, in source order
Validate ==
  /\ pc = "validate"
  /\ IF NoFiles(uploadedFiles)
     THEN /\ res' = Send(400, [EmptyBody EXCEPT !.keys = {"error"},
                 !.error = "At least one medical report file is required"])
          /\ pc' = "done"
          /\ UNCHANGED idx
     ELSE IF NoPatientName(req.data.patientInfo)
     THEN /\ res' = Send(400, [EmptyBody EXCEPT !.keys = {"error"},
                 !.error = "Patient information is required"])
          /\ pc' = "done"
          /\ UNCHANGED idx
     ELSE /\ pc' = "files"
          /\ idx' = 1
          /\ UNCHANGED res
  /\ UNCHANGED <<suspended, page, req, disk, processedFiles, extractedTextContent, enhancedPrompt,
                 imageFiles, fn, maxRetries, baseDelay, attempt, entered, calls,
                 waits, result, error>>

(* --------------------------- content extractor ------------------------- *)
PdfPlaceholder == <<"Could not extract text from PDF">>

Processed(name, type, data, textContent, isImage, isPdf, isText) ==
  [name |-> name, type |-> type, data |-> data, textContent |-> textContent,
   isImage |-> isImage, isPdf |-> isPdf, isText |-> isText]

\* one iteration of `for (const file of uploadedFiles)`: what is pushed onto
\* processedFiles (push = <<>> when the file is skipped) and what is appended
\* to extractedTextContent.  mimeType.startsWith throws when the type is not
\* a string; the outer catch logs it and the file is skipped.
ProcessFile(file) ==
  LET mimeType == getMimeType(file.originalFilename)
      name == file.originalFilename
  IN IF mimeType = NotAString
     THEN [push |-> <<>>, text |-> <<>>]
     ELSE IF IsImageMime(mimeType)
     THEN IF file.fault = "read"
          THEN [push |-> <<>>, text |-> <<>>]
          ELSE [push |-> <<Processed(name, mimeType, fileToBase64(file.content), <<>>,
                                     TRUE, FALSE, FALSE)>>,
                text |-> <<>>]
     ELSE IF IsPdfMime(mimeType)
     THEN IF file.fault \in {"read", "pdf"}
          THEN [push |-> <<Processed(name, mimeType, <<>>, PdfPlaceholder,
                                     FALSE, TRUE, FALSE)>>,
                text |-> <<>>]
          ELSE [push |-> <<Processed(name, mimeType, <<>>, PdfText(file.content),
                                     FALSE, TRUE, FALSE)>>,
                text |-> <<"\n\n=== PDF Content from ">> \o name \o <<" ===\n">>
                           \o PdfText(file.content) \o <<"\n">>]
     ELSE IF file.fault = "read"
          THEN [push |-> <<>>, text |-> <<>>]
          ELSE [push |-> <<Processed(name, mimeType, <<>>, file.content,
                                     FALSE, FALSE, TRUE)>>,
                text |-> <<"\n\n=== Text Content from ">> \o name \o <<" ===\n">>
                           \o file.content \o <<"\n">>]

\* the iteration reaches `await pdf(fileBuffer)`: the type is application/pdf
\* and readFileSync has returned the buffer
AwaitsPdf(file) ==
  /\ IsPdfMime(getMimeType(file.originalFilename))
  /\ file.fault # "read"

\* variant: there is no per-file try/catch, a file that throws ends the request
ProcessNextFile_Abort ==
  /\ pc = "files"
  /\ idx <= Len(uploadedFiles)
  /\ LET r == ProcessFile(uploadedFiles[idx])
     IN IF AwaitsPdf(uploadedFiles[idx])
        THEN /\ pc' = "pdf"
             /\ UNCHANGED <<processedFiles, extractedTextContent, idx, error>>
        ELSE IF r.push = <<>>
        THEN /\ error' = Error(FALSE, 0, "ENOENT", FALSE, <<>>)
             /\ pc' = "catch"
             /\ UNCHANGED <<processedFiles, extractedTextContent, idx>>
        ELSE /\ processedFiles' = processedFiles \o r.push
             /\ extractedTextContent' = extractedTextContent \o r.text
             /\ idx' = idx + 1
             /\ UNCHANGED <<pc, error>>
  /\ UNCHANGED <<suspended, page, req, disk, enhancedPrompt, imageFiles, fn, maxRetries, baseDelay,
                 attempt, entered, calls, waits, result, res>>

\* variant: results are put in front of the earlier ones
ProcessNextFile_Prepend ==
  /\ pc = "files"
  /\ idx <= Len(uploadedFiles)
  /\ LET r == ProcessFile(uploadedFiles[idx])
     IN IF AwaitsPdf(uploadedFiles[idx])
        THEN /\ pc' = "pdf"
             /\ UNCHANGED <<processedFiles, extractedTextContent, idx>>
        ELSE /\ processedFiles' = r.push \o processedFiles
             /\ extractedTextContent' = r.text \o extractedTextContent
             /\ idx' = idx + 1
             /\ UNCHANGED pc
  /\ UNCHANGED <<suspended, page, req, disk, enhancedPrompt, imageFiles, fn, maxRetries, baseDelay,
                 attempt, entered, calls, waits, result, error, res>>

\* one pass of the file loop up to its end or, for a PDF whose buffer was
\* read, up to `await pdf(fileBuffer)`, where nothing is appended or pushed yet
ProcessNextFile ==
  /\ pc = "files"
  /\ idx <= Len(uploadedFiles)
  /\ LET r == ProcessFile(uploadedFiles[idx])
     IN IF AwaitsPdf(uploadedFiles[idx])
        THEN /\ pc' = "pdf"
             /\ UNCHANGED <<processedFiles, extractedTextContent, idx>>
        ELSE /\ processedFiles' = processedFiles \o r.push
             /\ extractedTextContent' = extractedTextContent \o r.text
             /\ idx' = idx + 1
             /\ UNCHANGED pc
  /\ UNCHANGED <<suspended, page, req, disk, enhancedPrompt, imageFiles, fn, maxRetries, baseDelay,
                 attempt, entered, calls, waits, result, error, res>>

\* pdf(fileBuffer) resolves or rejects: the text block is appended and the
\* record pushed, or the placeholder record is pushed, and the loop goes on
PdfSettles ==
  /\ pc = "pdf"
  /\ LET r == ProcessFile(uploadedFiles[idx])
     IN /\ processedFiles' = processedFiles \o r.push
        /\ extractedTextContent' = extractedTextContent \o r.text
  /\ idx' = idx + 1
  /\ pc' = "files"
  /\ UNCHANGED <<suspended, page, req, disk, enhancedPrompt, imageFiles, fn, maxRetries, baseDelay,
                 attempt, entered, calls, waits, result, error, res>>

(* ----------------------------- prompt composer ------------------------- *)
RECURSIVE Join(_, _)
\* Array.prototype.join on an array of texts
Join(parts, sep) ==
  IF Len(parts) = 0 THEN <<>>
  ELSE IF Len(parts) = 1 THEN parts[1]
  ELSE parts[1] \o sep \o Join(Tail(parts), sep)

\* medicalData?.join(', ') throws a TypeError: ?. stops at undefined and null
\* only, and a defined value that is not an array has no join method
JoinThrows(medicalData) == medicalData.def /\ ~medicalData.array

JoinError == Error(FALSE, 0, "medicalData?.join is not a function", FALSE, <<>>)

\* medicalData?.join(', ') || 'None specified', where the join does not throw
TestsLine(medicalData) ==
  IF medicalData.def /\ medicalData.array /\ Join(medicalData.v, <<", ">>) # <<>>
  THEN Join(medicalData.v, <<", ">>)
  ELSE <<"None specified">>

\* processedFiles.map(f => `- ${f.name} (${f.type})`).join('\n')
Manifest(pf) ==
  Join([i \in 1..Len(pf) |-> <<"- ">> \o pf[i].name \o <<" (">> \o pf[i].type \o <<")">>],
       <<"\n">>)

\* the hospitalPrompt template literal
hospitalPrompt(data, pf) ==
  LET patientInfo == data.patientInfo
      location == data.location
  IN <<"\nYou are a medical AI assistant ...\n\n**Patient Information:**\n- Name: ">>
     \o Interpolate(patientInfo.name)
     \o <<"\n- Age: ">> \o OrElse(patientInfo.age, <<"Not specified">>)
     \o <<"\n- Gender: ">> \o OrElse(patientInfo.gender, <<"Not specified">>)
     \o <<"\n- Symptoms: ">> \o OrElse(patientInfo.symptoms, <<"None specified">>)
     \o <<"\n- Urgency Level: ">> \o OrElse(patientInfo.urgency, <<"Normal">>)
     \o <<"\n\n**Medical Tests Selected:** ">> \o TestsLine(data.medicalData)
     \o <<"\n\n**Uploaded Medical Reports:** ">> \o <<ToString(Len(pf))>>
     \o <<" files uploaded\n">> \o Manifest(pf)
     \o <<"\n\n**Patient Location:** ">> \o OrElse(location.city, <<"Not specified">>)
     \o <<", ">> \o OrElse(location.country, <<"Not specified">>)
     \o <<"\n\n**IMPORTANT ANALYSIS REQUIREMENTS:** ... 5. **Distance & Travel Info** from ">>
     \o OrElse(location.city, <<"patient location">>)
     \o <<"\n6. ... 8. **Best Time to Visit** based on urgency level: ">>
     \o Interpolate(patientInfo.urgency)
     \o <<"\n9. ... Format the response with clear sections ...\n">>

analysisInstruction == <<"\n\n**MANDATORY MEDICAL ANALYSIS:** ... Begin your analysis now:">>

\* enhancedPrompt: hospitalPrompt plus the extracted text when it is not blank
EnhancedPrompt(data, pf, extracted) ==
  IF Trim(extracted) # <<>>
  THEN hospitalPrompt(data, pf) \o <<"\n\n**EXTRACTED TEXT FROM MEDICAL REPORTS:**">>
         \o extracted
  ELSE hospitalPrompt(data, pf)

ImageFilter(pf) == SelectSeq(pf, LAMBDA f : f.isImage)

\* after the file loop: the hospitalPrompt template is evaluated, which throws
\* to the handler's catch when medicalData?.join does; otherwise imageFiles and
\* enhancedPrompt are built
Compose ==
  /\ pc = "files"
  /\ idx > Len(uploadedFiles)
  /\ IF JoinThrows(req.data.medicalData)
     THEN /\ error' = JoinError
          /\ pc' = "catch"
          /\ UNCHANGED <<enhancedPrompt, imageFiles>>
     ELSE /\ enhancedPrompt' = EnhancedPrompt(req.data, processedFiles, extractedTextContent)
          /\ imageFiles' = ImageFilter(processedFiles)
          /\ pc' = "invoke"
          /\ UNCHANGED error
  /\ UNCHANGED <<suspended, page, req, disk, idx, processedFiles, extractedTextContent, fn, maxRetries,
                 baseDelay, attempt, entered, calls, waits, result, res>>

(* ----------------------------- resilient invoker ----------------------- *)
\* variant: the attachments are built back to front
ImageParts_Reversed(images) ==
  [i \in 1..Len(images) |->
     [data |-> images[Len(images) + 1 - i].data,
      mimeType |-> images[Len(images) + 1 - i].type]]

\* imageFiles.map(file => ({inlineData: {data: file.data, mimeType: file.type}}))
ImageParts(images) ==
  [i \in 1..Len(images) |-> [data |-> images[i].data, mimeType |-> images[i].type]]

\* the closure built by the handler: multimodal when there is an image,
\* text-only otherwise
MakeFn(prompt, images) ==
  IF Len(images) > 0
  THEN [text |-> prompt \o analysisInstruction
                   \o <<"\n\n**ANALYZE THESE MEDICAL IMAGES AND TEXT:**">>,
        imageParts |-> ImageParts(images)]
  ELSE [text |-> prompt \o analysisInstruction, imageParts |-> <<>>]

\* result = await retryWithBackoff(fn, 3, 5000, false)
Invoke ==
  /\ pc = "invoke"
  /\ fn' = MakeFn(enhancedPrompt, imageFiles)
  /\ maxRetries' = 3
  /\ baseDelay' = 5000
  /\ attempt' = 0
  /\ entered' = entered + 1
  /\ pc' = "attempting"
  /\ UNCHANGED <<suspended, page, req, disk, idx, processedFiles, extractedTextContent, enhancedPrompt,
                 imageFiles, calls, waits, result, error, res>>

\* error.status === n and error.status >= n, false when there is no status
StatusIs(e, n) == e.hasStatus /\ e.status = n
StatusAtLeast(e, n) == e.hasStatus /\ e.status >= n

\* const delayTime = baseDelay * Math.pow(2, attempt)
DelayTime(base, att) == base * Pow2(att)

\* variant: Math.min where the source has Math.max
RetryDelay429_Min(e, base, att) ==
  LET apiRetryDelay == ApiRetryDelay(e)
      hinted == Times(parseInt(ReplaceFirst(apiRetryDelay.v, "s")), 1000)
  IN IF Truthy(apiRetryDelay)
     THEN IF hinted <= DelayTime(base, att) THEN hinted ELSE DelayTime(base, att)
     ELSE DelayTime(base, att)

\* retryDelay of the 429 branch
RetryDelay429(e, base, att) ==
  LET apiRetryDelay == ApiRetryDelay(e)
  IN IF Truthy(apiRetryDelay)
     THEN MathMax(Times(parseInt(ReplaceFirst(apiRetryDelay.v, "s")), 1000),
                  DelayTime(base, att))
     ELSE DelayTime(base, att)

\* variant: the retry ceiling is compared one attempt too early
OnError_EarlyCeiling(e, att, maxR, base) ==
  IF StatusIs(e, 429) /\ att < maxR - 2
  THEN [retry |-> TRUE, wait |-> RetryDelay429(e, base, att)]
  ELSE IF StatusIs(e, 503) /\ att < maxR - 2
  THEN [retry |-> TRUE, wait |-> DelayTime(base, att)]
  ELSE IF StatusAtLeast(e, 500) /\ att < maxR - 2
  THEN [retry |-> TRUE, wait |-> DelayTime(base, att)]
  ELSE [retry |-> FALSE, wait |-> 0]

\* variant: the last retry test reads >= 400 instead of >= 500
OnError_Retry4xx(e, att, maxR, base) ==
  IF StatusIs(e, 429) /\ att < maxR - 1
  THEN [retry |-> TRUE, wait |-> RetryDelay429(e, base, att)]
  ELSE IF StatusIs(e, 503) /\ att < maxR - 1
  THEN [retry |-> TRUE, wait |-> DelayTime(base, att)]
  ELSE IF StatusAtLeast(e, 400) /\ att < maxR - 1
  THEN [retry |-> TRUE, wait |-> DelayTime(base, att)]
  ELSE [retry |-> FALSE, wait |-> 0]

\* variant: the 503 and >= 500 branches honour the retry delay of the error
OnError_HintOn5xx(e, att, maxR, base) ==
  IF StatusIs(e, 429) /\ att < maxR - 1
  THEN [retry |-> TRUE, wait |-> RetryDelay429(e, base, att)]
  ELSE IF StatusIs(e, 503) /\ att < maxR - 1
  THEN [retry |-> TRUE, wait |-> RetryDelay429(e, base, att)]
  ELSE IF StatusAtLeast(e, 500) /\ att < maxR - 1
  THEN [retry |-> TRUE, wait |-> RetryDelay429(e, base, att)]
  ELSE [retry |-> FALSE, wait |-> 0]

\* variant: the branch for other statuses >= 500 is missing
OnError_No5xxRetry(e, att, maxR, base) ==
  IF StatusIs(e, 429) /\ att < maxR - 1
  THEN [retry |-> TRUE, wait |-> RetryDelay429(e, base, att)]
  ELSE IF StatusIs(e, 503) /\ att < maxR - 1
  THEN [retry |-> TRUE, wait |-> DelayTime(base, att)]
  ELSE [retry |-> FALSE, wait |-> 0]

\* variant: a 429 whose quota violation is a daily one is not retried
OnError_NoRetryDaily(e, att, maxR, base) ==
  IF StatusIs(e, 429) /\ att < maxR - 1
       /\ ~(\E i \in 1..Len(e.errorDetails) :
              \E q \in 1..Len(e.errorDetails[i].quotaIds) :
                \E j \in 1..Len(e.errorDetails[i].quotaIds[q]) :
                  e.errorDetails[i].quotaIds[q][j] \in {"PerDay", "Daily"})
  THEN [retry |-> TRUE, wait |-> RetryDelay429(e, base, att)]
  ELSE IF StatusIs(e, 503) /\ att < maxR - 1
  THEN [retry |-> TRUE, wait |-> DelayTime(base, att)]
  ELSE IF StatusAtLeast(e, 500) /\ att < maxR - 1
  THEN [retry |-> TRUE, wait |-> DelayTime(base, att)]
  ELSE [retry |-> FALSE, wait |-> 0]

\* variant: the ceiling is compared one attempt too late, so the last failure
\* is followed by a wait as well
OnError_LateCeiling(e, att, maxR, base) ==
  IF StatusIs(e, 429) /\ att < maxR
  THEN [retry |-> TRUE, wait |-> RetryDelay429(e, base, att)]
  ELSE IF StatusIs(e, 503) /\ att < maxR
  THEN [retry |-> TRUE, wait |-> DelayTime(base, att)]
  ELSE IF StatusAtLeast(e, 500) /\ att < maxR
  THEN [retry |-> TRUE, wait |-> DelayTime(base, att)]
  ELSE [retry |-> FALSE, wait |-> 0]

\* the catch block of retryWithBackoff: wait and go on, or throw the error
OnError(e, att, maxR, base) ==
  IF StatusIs(e, 429) /\ att < maxR - 1
  THEN [retry |-> TRUE, wait |-> RetryDelay429(e, base, att)]
  ELSE IF StatusIs(e, 503) /\ att < maxR - 1
  THEN [retry |-> TRUE, wait |-> DelayTime(base, att)]
  ELSE IF StatusAtLeast(e, 500) /\ att < maxR - 1
  THEN [retry |-> TRUE, wait |-> DelayTime(base, att)]
  ELSE [retry |-> FALSE, wait |-> 0]

\* const modelName = useFlashModel ? 'gemini-1.5-flash' : 'gemini-1.5-pro'
getModel(flash) == IF flash THEN "gemini-1.5-flash" ELSE "gemini-1.5-pro"

\* variant: the tier falls back to the capable model after the first failure
useFlashModel_Fallback(att) == att = 0

\* let useFlashModel = true: set once before the loop and never assigned again,
\* so it has the same value at every attempt
useFlashModel(att) == TRUE

\* the remote call of one attempt: fn(useFlashModel) with the closure's content
Call(o) ==
  [attempt |-> attempt, useFlashModel |-> useFlashModel(attempt),
   model |-> getModel(useFlashModel(attempt)),
   text |-> fn.text, imageParts |-> fn.imageParts, kind |-> o.kind, error |-> o.error]

\* variant: a do-while loop, the first call is made before the ceiling is read
Attempt_DoWhile ==
  /\ pc = "attempting"
  /\ attempt < maxRetries \/ attempt = 0
  /\ \E o \in RemoteOutcomes :
       /\ calls' = Append(calls, Call(o))
       /\ IF o.kind # "error"
          THEN /\ result' = o.kind
               /\ pc' = "text"
               /\ UNCHANGED <<waits, error>>
          ELSE LET d == OnError(o.error, attempt, maxRetries, baseDelay)
               IN IF d.retry
                  THEN /\ waits' = Append(waits, d.wait)
                       /\ pc' = "backoff"
                       /\ UNCHANGED <<result, error>>
                  ELSE /\ error' = o.error
                       /\ pc' = "catch"
                       /\ UNCHANGED <<result, waits>>
  /\ UNCHANGED <<suspended, page, req, disk, idx, processedFiles, extractedTextContent, enhancedPrompt,
                 imageFiles, fn, maxRetries, baseDelay, attempt, entered, res>>

\* one pass of the retry loop: return await fn(useFlashModel), or its catch
Attempt ==
  /\ pc = "attempting"
  /\ attempt < maxRetries
  /\ \E o \in RemoteOutcomes :
       /\ calls' = Append(calls, Call(o))
       /\ IF o.kind # "error"
          THEN /\ result' = o.kind
               /\ pc' = "text"
               /\ UNCHANGED <<waits, error>>
          ELSE LET d == OnError(o.error, attempt, maxRetries, baseDelay)
               IN IF d.retry
                  THEN /\ waits' = Append(waits, d.wait)
                       /\ pc' = "backoff"
                       /\ UNCHANGED <<result, error>>
                  ELSE /\ error' = o.error
                       /\ pc' = "catch"
                       /\ UNCHANGED <<result, waits>>
  /\ UNCHANGED <<suspended, page, req, disk, idx, processedFiles, extractedTextContent, enhancedPrompt,
                 imageFiles, fn, maxRetries, baseDelay, attempt, entered, res>>

\* variant: the promise of delay() is never resolved, so the wait never ends
Backoff_NeverResolves ==
  /\ pc = "backoff"
  /\ UNCHANGED vars

\* the timer of `await delay(...)` fires; `continue` runs attempt++
Backoff ==
  /\ pc = "backoff"
  /\ attempt' = attempt + 1
  /\ pc' = "attempting"
  /\ UNCHANGED <<suspended, page, req, disk, idx, processedFiles, extractedTextContent, enhancedPrompt,
                 imageFiles, fn, maxRetries, baseDelay, entered, calls, waits, result,
                 error, res>>

\* const response = await result.response; const analysis = response.text()
ReadText ==
  /\ pc = "text"
  /\ IF result = "ok"
     THEN /\ pc' = "cleanup"
          /\ idx' = 1
          /\ UNCHANGED error
     ELSE /\ error' = TextError
          /\ pc' = "catch"
          /\ UNCHANGED idx
  /\ UNCHANGED <<suspended, page, req, disk, processedFiles, extractedTextContent, enhancedPrompt,
                 imageFiles, fn, maxRetries, baseDelay, attempt, entered, calls,
                 waits, result, res>>

(* --------------------------- response translator ----------------------- *)
\* variant: filesAnalyzed counts every processed file
SuccessBody_CountAll(name, pf, images) ==
  [EmptyBody EXCEPT !.keys = {"analysis", "timestamp", "patientInfo"},
                    !.analysis = "analysis", !.timestamp = "now",
                    !.name = name,
                    !.filesUploaded = Len(pf),
                    !.filesAnalyzed = Len(pf)]

\* the body of the 200 response
SuccessBody(name, pf, images) ==
  [EmptyBody EXCEPT !.keys = {"analysis", "timestamp", "patientInfo"},
                    !.analysis = "analysis", !.timestamp = "now",
                    !.name = name,
                    !.filesUploaded = Len(pf),
                    !.filesAnalyzed = Len(images)]

\* variant: there is no try/catch around unlinkSync, a failed deletion ends the
\* loop and reaches the handler's catch block
CleanupAndRespond200_Abort ==
  /\ pc = "cleanup"
  /\ \E failed \in SUBSET (disk \cap (1..Len(uploadedFiles))) :
       /\ disk' = failed
       /\ IF failed = {}
          THEN /\ res' = Send(200, SuccessBody(Interpolate(req.data.patientInfo.name),
                                               processedFiles, imageFiles))
               /\ pc' = "done"
               /\ UNCHANGED error
          ELSE /\ error' = Error(FALSE, 0, "EPERM", FALSE, <<>>)
               /\ pc' = "catch"
               /\ UNCHANGED res
  /\ idx' = Len(uploadedFiles) + 1
  /\ UNCHANGED <<suspended, page, req, processedFiles, extractedTextContent, enhancedPrompt,
                 imageFiles, fn, maxRetries, baseDelay, attempt, entered, calls,
                 waits, result>>

\* the cleanup loop followed by the 200 response: every file still in storage
\* is unlinked unless unlinkSync throws on it, which is logged and swallowed
CleanupAndRespond200 ==
  /\ pc = "cleanup"
  /\ \E failed \in SUBSET (disk \cap (1..Len(uploadedFiles))) : disk' = failed
  /\ idx' = Len(uploadedFiles) + 1
  /\ res' = Send(200, SuccessBody(Interpolate(req.data.patientInfo.name),
                                  processedFiles, imageFiles))
  /\ pc' = "done"
  /\ UNCHANGED <<suspended, page, req, processedFiles, extractedTextContent, enhancedPrompt,
                 imageFiles, fn, maxRetries, baseDelay, attempt, entered, calls,
                 waits, result, error>>

\* variant: retryAfter takes the larger of the hint and the default
RetryAfter429_Max(e) ==
  LET retryDelay == ApiRetryDelay(e)
  IN IF Truthy(retryDelay)
     THEN MathMax(parseInt(ReplaceFirst(retryDelay.v, "s")), 300)
     ELSE 300

\* variant: there is no default, retryAfter is read from the error or not at all
RetryAfter429_NoDefault(e) ==
  LET retryDelay == ApiRetryDelay(e)
  IN IF Truthy(retryDelay) THEN parseInt(ReplaceFirst(retryDelay.v, "s")) ELSE NaN

\* retryAfter of the 429 response: the RetryInfo delay in seconds, else 300
RetryAfter429(e) ==
  LET retryDelay == ApiRetryDelay(e)
  IN IF Truthy(retryDelay) THEN parseInt(ReplaceFirst(retryDelay.v, "s")) ELSE 300

\* v.quotaId?.includes('PerDay') || v.quotaId?.includes('Daily')
IsDaily(e) ==
  LET q == FindDetail(e, QuotaFailureType)
  IN /\ q.def
     /\ \E i \in 1..Len(q.v.quotaIds) :
          \E j \in 1..Len(q.v.quotaIds[i]) : q.v.quotaIds[i][j] \in {"PerDay", "Daily"}

\* variant: every status >= 500 is answered as service unavailable
TranslateStatus_5xxAs503(e) ==
  IF StatusAtLeast(e, 500) THEN 503
  ELSE IF StatusIs(e, 429) THEN 429
  ELSE 500

\* variant: the 503 branch is missing
TranslateStatus_No503(e) ==
  IF StatusIs(e, 429) THEN 429
  ELSE 500

\* which branch of the handler's catch block answers the error
TranslateStatus(e) ==
  IF StatusIs(e, 503) THEN 503
  ELSE IF StatusIs(e, 429) THEN 429
  ELSE 500

Body503(e) ==
  [EmptyBody EXCEPT
     !.keys = {"error", "message", "details", "retryAfter"},
     !.error = "AI service temporarily unavailable",
     !.message = <<"The Gemini API is currently experiencing high demand. Please try again in 1-2 minutes.">>,
     !.details = e.message,
     !.retryAfter = 120]

Body429(e) ==
  [EmptyBody EXCEPT
     !.keys = {"error", "message", "details", "retryAfter", "upgradeInfo"},
     !.error = "Rate limit exceeded",
     !.message =
        IF IsDaily(e)
        THEN <<"You have exceeded your daily quota. Please try again tomorrow or upgrade your plan for higher limits.">>
        ELSE <<"Rate limit exceeded. Please wait ",
               NumText(CeilDiv60(RetryAfter429(e))),
               " minutes before trying again.">>,
     !.details = "Free tier has limited requests. Consider upgrading to a paid plan for higher limits.",
     !.retryAfter = RetryAfter429(e),
     !.upgradeInfo = "Visit https://ai.google.dev/pricing to see paid tier options with higher rate limits."]

Body500(e) ==
  [EmptyBody EXCEPT
     !.keys = {"error", "details"},
     !.error = "Failed to analyze medical data",
     !.details = e.message]

\* the catch block of the handler
Translate(e) ==
  LET s == TranslateStatus(e)
  IN [status |-> s,
      body |-> IF s = 503 THEN Body503(e) ELSE IF s = 429 THEN Body429(e) ELSE Body500(e)]

Catch ==
  /\ pc = "catch"
  /\ res' = Send(Translate(error).status, Translate(error).body)
  /\ pc' = "done"
  /\ UNCHANGED <<suspended, page, req, disk, idx, processedFiles, extractedTextContent, enhancedPrompt,
                 imageFiles, fn, maxRetries, baseDelay, attempt, entered, calls,
                 waits, result, error>>

(* ---------------------------- specification ---------------------------- *)
Next ==
  \/ CheckMethod
  \/ FormParse
  \/ JsonParse
  \/ Validate
  \/ ProcessNextFile
  \/ PdfSettles
  \/ Compose
  \/ Invoke
  \/ Attempt
  \/ Backoff
  \/ ReadText
  \/ CleanupAndRespond200
  \/ Catch

Spec == Init /\ [][Next]_vars

\* the uploads of the fair specification: the first n files of one upload
LivePool ==
  << File(<<"a", ".", "J", "P", "G">>, <<"px1">>, "none"),
     File(<<"e", ".", "p", "d", "f">>, <<"%PDF-1.4", "garbled">>, "pdf"),
     File(<<"n", ".", "t", "x", "t">>, <<"note">>, "none"),
     File(<<"b", ".", "p", "n", "g">>, <<"px2">>, "read"),
     File(<<"r", ".", "p", "d", "f">>, <<"%PDF-1.4", "Hb 9", "%%EOF">>, "none") >>
LiveFileLists == {SubSeq(LivePool, 1, n) : n \in 0..MaxFiles}

\* the requests of the fair specification: every method, parse result and
\* data kind, a complete and an empty submission, 0..MaxFiles files
LiveInit ==
  /\ Init
  /\ req.files \in LiveFileLists
  /\ req.data \in {FullFields(Some(<<"A", "l">>)),
                   Data(NoPatientInfo, NoTests, NoLocation)}

\* The event loop runs every step of the handler that is ready; every remote
\* call returns or fails and every backoff timer fires.
FairSpec == LiveInit /\ [][Next]_vars /\ WF_vars(Next)

\* the uploads of the file specification: two readable images of different
\* type, a readable and a damaged PDF, a DICOM file, a text file whose name
\* holds two dots, an unreadable file without extension, and a text file
\* whose extension names an inherited property of the type table
MixedFileKinds ==
  { File(<<"a", ".", "J", "P", "G">>, <<"px1">>, "none"),
    File(<<"b", ".", "p", "n", "g">>, <<"px2">>, "none"),
    File(<<"r", ".", "p", "d", "f">>, <<"%PDF-1.4", "Hb 9", "%%EOF">>, "none"),
    File(<<"e", ".", "p", "d", "f">>, <<"%PDF-1.4", "garbled">>, "pdf"),
    File(<<"s", ".", "d", "c", "m">>, <<"DICM">>, "none"),
    File(<<"p", ".", "p", "n", "g", ".", "t", "x", "t">>, <<"note">>, "none"),
    File(<<"x">>, <<"raw">>, "read"),
    File(<<"k", ".", "c", "o", "n", "s", "t", "r", "u", "c", "t", "o", "r">>,
         <<"plain">>, "none") }

MixedFileLists == SeqsUpTo(MixedFileKinds, MaxFiles)

\* the file specification: a valid POST of one submission with every upload
\* of at most MaxFiles files of the kinds above
FileInit ==
  InitWith([method : {"POST"}, parse : {"ok"}, dataKind : {"ok"},
            data : {FullFields(Some(<<"A", "l">>))}, files : MixedFileLists],
           {Page(0, <<>>)})

FileSpec == FileInit /\ [][Next]_vars

(* ------------------------- two requests in flight ---------------------- *)
\* the locals of the invocation of the handler that is running
Locals ==
  [req |-> req, pc |-> pc, disk |-> disk, idx |-> idx,
   processedFiles |-> processedFiles, extractedTextContent |-> extractedTextContent,
   enhancedPrompt |-> enhancedPrompt, imageFiles |-> imageFiles, fn |-> fn,
   maxRetries |-> maxRetries, baseDelay |-> baseDelay, attempt |-> attempt,
   entered |-> entered, calls |-> calls, waits |-> waits, result |-> result,
   error |-> error, res |-> res]

\* the locals of an invocation for request r that has not made a step yet
Fresh(r) ==
  [req |-> r, pc |-> "start", disk |-> {}, idx |-> 0,
   processedFiles |-> <<>>, extractedTextContent |-> <<>>,
   enhancedPrompt |-> <<>>, imageFiles |-> <<>>, fn |-> NoFn,
   maxRetries |-> 0, baseDelay |-> 0, attempt |-> 0,
   entered |-> 0, calls |-> <<>>, waits |-> <<>>, result |-> "none",
   error |-> NoError, res |-> [sent |-> 0, status |-> 0, body |-> EmptyBody]]

\* where an invocation gives up the thread: before its first step, at
\* `await form.parse(req)`, at `await pdf(fileBuffer)`, at
\* `await fn(useFlashModel)`, at `await delay(...)`, at `await result.response`,
\* and when it has ended
AwaitPoints == {"start", "parse", "pdf", "attempting", "backoff", "text", "done"}

\* variant: the loop counter is one binding of the module, shared by every
\* invocation, instead of a `let` of each call of retryWithBackoff
Resume_SharedAttempt ==
  /\ Len(suspended) = 1
  /\ pc \in AwaitPoints
  /\ suspended[1].pc # "done"
  /\ suspended' = <<Locals>>
  /\ req' = suspended[1].req
  /\ pc' = suspended[1].pc
  /\ disk' = suspended[1].disk
  /\ idx' = suspended[1].idx
  /\ processedFiles' = suspended[1].processedFiles
  /\ extractedTextContent' = suspended[1].extractedTextContent
  /\ enhancedPrompt' = suspended[1].enhancedPrompt
  /\ imageFiles' = suspended[1].imageFiles
  /\ fn' = suspended[1].fn
  /\ maxRetries' = suspended[1].maxRetries
  /\ baseDelay' = suspended[1].baseDelay
  /\ attempt' = attempt
  /\ entered' = suspended[1].entered
  /\ calls' = suspended[1].calls
  /\ waits' = suspended[1].waits
  /\ result' = suspended[1].result
  /\ error' = suspended[1].error
  /\ res' = suspended[1].res
  /\ UNCHANGED page

\* the event loop leaves the running invocation at an await and resumes the
\* other one: every variable of the handler and of retryWithBackoff is a
\* parameter, const or let of the invocation, so each invocation finds its
\* own values again
Resume ==
  /\ Len(suspended) = 1
  /\ pc \in AwaitPoints
  /\ suspended[1].pc # "done"
  /\ suspended' = <<Locals>>
  /\ req' = suspended[1].req
  /\ pc' = suspended[1].pc
  /\ disk' = suspended[1].disk
  /\ idx' = suspended[1].idx
  /\ processedFiles' = suspended[1].processedFiles
  /\ extractedTextContent' = suspended[1].extractedTextContent
  /\ enhancedPrompt' = suspended[1].enhancedPrompt
  /\ imageFiles' = suspended[1].imageFiles
  /\ fn' = suspended[1].fn
  /\ maxRetries' = suspended[1].maxRetries
  /\ baseDelay' = suspended[1].baseDelay
  /\ attempt' = suspended[1].attempt
  /\ entered' = suspended[1].entered
  /\ calls' = suspended[1].calls
  /\ waits' = suspended[1].waits
  /\ result' = suspended[1].result
  /\ error' = suspended[1].error
  /\ res' = suspended[1].res
  /\ UNCHANGED page

\* two valid submissions: a complete one with an image, a bare one with a PDF
ConcurrentRequests ==
  << [method |-> "POST", parse |-> "ok", dataKind |-> "ok",
      data |-> FullFields(Some(<<"A", "l">>)),
      files |-> <<File(<<"a", ".", "J", "P", "G">>, <<"px1">>, "none")>>],
     [method |-> "POST", parse |-> "ok", dataKind |-> "ok",
      data |-> BareFields(Some(<<"B", "o">>)),
      files |-> <<File(<<"r", ".", "p", "d", "f">>,
                       <<"%PDF-1.4", "Hb 9", "%%EOF">>, "none")>>] >>

\* the first request is about to be handled, the second has arrived
ConcInit ==
  /\ req = ConcurrentRequests[1]
  /\ page = Page(0, <<>>)
  /\ suspended = <<Fresh(ConcurrentRequests[2])>>
  /\ pc = "start"
  /\ disk = {}
  /\ idx = 0
  /\ processedFiles = <<>>
  /\ extractedTextContent = <<>>
  /\ enhancedPrompt = <<>>
  /\ imageFiles = <<>>
  /\ fn = NoFn
  /\ maxRetries = 0
  /\ baseDelay = 0
  /\ attempt = 0
  /\ entered = 0
  /\ calls = <<>>
  /\ waits = <<>>
  /\ result = "none"
  /\ error = NoError
  /\ res = [sent |-> 0, status |-> 0, body |-> EmptyBody]

ConcNext ==
  \/ Next
  \/ Resume

ConcSpec == ConcInit /\ [][ConcNext]_vars

(* ------------------------ retryWithBackoff on its own ------------------ *)
\* largest retry ceiling handed to retryWithBackoff
MaxCeiling == 4

\* the for loop ends without a return or a throw when attempt < maxRetries is
\* false: the async function resolves with undefined
LoopEnds ==
  /\ pc = "attempting"
  /\ ~(attempt < maxRetries)
  /\ result' = "undefined"
  /\ pc' = "text"
  /\ UNCHANGED <<suspended, page, req, disk, idx, processedFiles, extractedTextContent, enhancedPrompt,
                 imageFiles, fn, maxRetries, baseDelay, attempt, entered, calls, waits,
                 error, res>>

\* retryWithBackoff(fn, maxRetries, baseDelay) has just been entered with a
\* text-only closure, a ceiling between -1 and MaxCeiling, and the default or
\* the handler's base delay
RetryInit ==
  /\ req = [method |-> "POST", parse |-> "ok", dataKind |-> "ok",
            data |-> FullFields(Some(<<"A", "l">>)), files |-> <<>>]
  /\ page = Page(0, <<>>)
  /\ suspended = <<>>
  /\ pc = "attempting"
  /\ disk = {}
  /\ idx = 0
  /\ processedFiles = <<>>
  /\ extractedTextContent = <<>>
  /\ enhancedPrompt = <<>>
  /\ imageFiles = <<>>
  /\ fn = MakeFn(<<"prompt">>, <<>>)
  /\ maxRetries \in (0 - 1)..MaxCeiling
  /\ baseDelay \in {1000, 5000}
  /\ attempt = 0
  /\ entered = 1
  /\ calls = <<>>
  /\ waits = <<>>
  /\ result = "none"
  /\ error = NoError
  /\ res = [sent |-> 0, status |-> 0, body |-> EmptyBody]

\* the steps of retryWithBackoff; it has returned when pc = "text" and has
\* thrown when pc = "catch"
RetryNext ==
  \/ Attempt
  \/ Backoff
  \/ LoopEnds

RetrySpec == RetryInit /\ [][RetryNext]_vars

(* ------------------------------ the page ------------------------------ *)
\* largest number of submit events of one page visit
MaxSubmits == 2

\* what the user typed as patient name
PatientNames == { <<>>, <<" ", " ">>, <<"A", "l">>, <<" ", "A", "l", " ">> }

\* a file of a pick or drop: its name, its MIME type as the browser reports
\* it, and its size in bytes
Picked(name, type, size) == [name |-> name, type |-> type, size |-> size]

validTypes ==
  {"application/pdf", "image/jpeg", "image/png", "image/jpg", "application/dicom"}
maxSize == 10 * 1024 * 1024

\* String.prototype.endsWith
EndsWith(t, suffix) ==
  /\ Len(t) >= Len(suffix)
  /\ SubSeq(t, Len(t) - Len(suffix) + 1, Len(t)) = suffix

\* the files a user picks: a small PDF, a text file, a PDF over the limit, a
\* DICOM file without type at the limit, a text file over the limit
PickedFileKinds ==
  { Picked(<<"s", "c", "a", "n", ".", "p", "d", "f">>, "application/pdf", 1),
    Picked(<<"n", "o", "t", "e", "s", ".", "t", "x", "t">>, "text/plain", 1),
    Picked(<<"h", "u", "g", "e", ".", "p", "d", "f">>, "application/pdf", maxSize + 1),
    Picked(<<"s", ".", "D", "C", "M">>, "", maxSize),
    Picked(<<"b", "i", "g", ".", "t", "x", "t">>, "text/plain", maxSize + 1) }

\* largest number of files of one pick or drop
MaxPick == 2

\* one pick or drop: one to MaxPick files
PickedFiles == SeqsUpTo(PickedFileKinds, MaxPick) \ {<<>>}

\* how the fetch of one submission settles: a response with a JSON body, a
\* response whose body is not JSON (response.json() rejects), or no response
\* at all (fetch rejects)
Fetched(kind, status) == [kind |-> kind, status |-> status]
FetchOutcomes ==
  {Fetched("json", st) : st \in {200, 400, 405, 429, 500, 503}}
    \cup {Fetched("notjson", 502), Fetched("rejected", 0)}

\* response.ok
ResponseOk(o) == o.status >= 200 /\ o.status <= 299

\* variant: the name is tested without trim()
ClientValid_NoTrim(p) == p.uploadedFiles # 0 /\ p.patientName # <<>>

\* the two client-side checks pass: at least one file, a name that is not
\* blank after trim()
ClientValid(p) == p.uploadedFiles # 0 /\ Trim(p.patientName) # <<>>

\* the type of the error state set for a non-OK response
ErrorTypeFor(status) ==
  IF status = 503 THEN "service_unavailable"
  ELSE IF status = 429 THEN "rate_limited"
  ELSE "general_error"

\* handleReportSubmit up to the fetch: the checks, the three resets, the
\* request.  The catch block later reads errorState from the closure of this
\* call, that is the value rendered when the submit event fired.
handleReportSubmit ==
  /\ page.pc = "idle"
  /\ Len(page.submits) < MaxSubmits
  /\ IF ClientValid(page)
     THEN page' = [page EXCEPT !.pc = "awaiting",
                               !.submits = Append(@, "sent"),
                               !.closureErrorState = page.errorState,
                               !.analysisLoading = TRUE,
                               !.analysisResult = "null",
                               !.errorState = "null",
                               !.fetches = @ + 1,
                               !.lastFetch = [kind |-> "none", status |-> 0]]
     ELSE page' = [page EXCEPT !.submits = Append(@, "rejected"),
                               !.alert = IF page.uploadedFiles = 0
                                         THEN <<"Please upload at least one medical report file.">>
                                         ELSE <<"Please enter the patient name.">>]
  /\ UNCHANGED <<suspended, handlerVars>>

\* variant: the loading flag is reset on the success path only
Settled_NoFinally(p, o) ==
  LET failed == o.kind # "json" \/ ~ResponseOk(o)
      specific == IF o.kind = "json" /\ ~ResponseOk(o)
                  THEN ErrorTypeFor(o.status) ELSE p.errorState
  IN [p EXCEPT !.pc = "idle",
               !.lastFetch = o,
               !.analysisResult = IF failed THEN @ ELSE "analysis",
               !.alert = IF failed THEN @ ELSE <<"AI Analysis Complete!">>,
               !.errorState = IF failed /\ p.closureErrorState = "null"
                              THEN "network_error" ELSE specific,
               !.analysisLoading = failed]

\* the page after the fetch of the running submission has settled with o: the
\* rest of the try block, the catch block and the finally block
Settled(p, o) ==
  LET failed == o.kind # "json" \/ ~ResponseOk(o)
      specific == IF o.kind = "json" /\ ~ResponseOk(o)
                  THEN ErrorTypeFor(o.status) ELSE p.errorState
  IN [p EXCEPT !.pc = "idle",
               !.lastFetch = o,
               !.analysisResult = IF failed THEN @ ELSE "analysis",
               !.alert = IF failed THEN @ ELSE <<"AI Analysis Complete!">>,
               !.errorState = IF failed /\ p.closureErrorState = "null"
                              THEN "network_error" ELSE specific,
               !.analysisLoading = FALSE]

FetchSettles ==
  /\ page.pc = "awaiting"
  /\ \E o \in FetchOutcomes : page' = Settled(page, o)
  /\ UNCHANGED <<suspended, handlerVars>>

\* the Dismiss button of the error panel
Dismiss ==
  /\ page.errorState # "null"
  /\ page' = [page EXCEPT !.errorState = "null"]
  /\ UNCHANGED <<suspended, handlerVars>>

\* the Clear Results button
ClearResults ==
  /\ page.analysisResult # "null"
  /\ page' = [page EXCEPT !.analysisResult = "null"]
  /\ UNCHANGED <<suspended, handlerVars>>

\* the filter callback of handleFiles: the alert() shown for a file that is
\* refused, no text for a file that is kept
Refusal(f) ==
  IF f.type \notin validTypes /\ ~EndsWith(toLowerCase(f.name), <<".", "d", "c", "m">>)
  THEN <<"File ">> \o f.name
         \o <<" is not a supported format. Please upload PDF, JPG, PNG, or DICOM files.">>
  ELSE IF f.size > maxSize
  THEN <<"File ">> \o f.name \o <<" is too large. Maximum size is 10MB.">>
  ELSE <<>>

RECURSIVE LastRefusal(_, _)
\* the last alert() shown after the files were filtered in order, shown when
\* none was
LastRefusal(files, shown) ==
  IF files = <<>> THEN shown
  ELSE LastRefusal(Tail(files),
                   IF Refusal(Head(files)) # <<>> THEN Refusal(Head(files)) ELSE shown)

\* files.filter(...)
ValidFiles(files) == SelectSeq(files, LAMBDA f : Refusal(f) = <<>>)

\* what handleFiles does with one pick: how many files it keeps and the last
\* alert() it shows (NoAlert when every file is kept)
Handled(files) ==
  [kept |-> Len(ValidFiles(files)), alert |-> LastRefusal(files, NoAlert)]

\* the picks of PickedFiles, by what handleFiles does with them
PickOutcomes == {Handled(files) : files \in PickedFiles}

\* handleFileUpload and handleDrop: the picked files are filtered, an alert is
\* shown for each refused one, and the kept ones are appended
handleFiles ==
  /\ \E h \in PickOutcomes :
       /\ page.uploadedFiles + h.kept <= MaxFiles
       /\ page' = [page EXCEPT
                     !.uploadedFiles = @ + h.kept,
                     !.alert = IF h.alert = NoAlert THEN @ ELSE h.alert]
  /\ UNCHANGED <<suspended, handlerVars>>

\* removeFile(index)
removeFile ==
  /\ page.uploadedFiles > 0
  /\ page' = [page EXCEPT !.uploadedFiles = @ - 1]
  /\ UNCHANGED <<suspended, handlerVars>>

\* the user types another patient name
EditForm ==
  /\ \E name \in PatientNames :
       /\ name # page.patientName
       /\ page' = [page EXCEPT !.patientName = name]
  /\ UNCHANGED <<suspended, handlerVars>>

PageNext ==
  \/ EditForm
  \/ handleFiles
  \/ removeFile
  \/ handleReportSubmit
  \/ FetchSettles
  \/ Dismiss
  \/ ClearResults

\* the page specification: one page visit with up to MaxSubmits submit
\* events; the API handler is the page's remote party and
\* takes no step of its own here
PageInit ==
  InitWith({[method |-> "POST", parse |-> "ok", dataKind |-> "ok",
             data |-> FullFields(Some(<<"A", "l">>)), files |-> <<>>]},
           {Page(0, <<>>)})

PageSpec == PageInit /\ [][PageNext]_vars

\* every fetch settles: the browser answers it or fails it
FairPageSpec == PageSpec /\ WF_vars(FetchSettles)

(* ------------------------ properties of the handler -------------------- *)
Is429(c) == c.kind = "error" /\ c.error.hasStatus /\ c.error.status = 429
Is503(c) == c.kind = "error" /\ c.error.hasStatus /\ c.error.status = 503
AllCalls(P(_)) == \A i \in 1..Len(calls) : P(calls[i])
Responded == pc = "done"
\* the multipart parse succeeded, so the handler holds the file handles
Parsed == req.method = "POST" /\ req.parse = "ok"
HasFiles == Len(req.files) > 0

\* C1: for every request that uploaded at least one file (and whose files the
\* handler received from the parser), once the response has been sent, on
\* whatever exit path, no transient uploaded file of the request is left in
\* storage.
C1_AllFilesRemovedOnEveryExit ==
  (Responded /\ Parsed /\ HasFiles) => disk = {}

\* C2: a POST with parseable data and zero files is answered 400 and never
\* reaches the remote service; and no 400 response follows a remote call.
C2_NoFilesIs400WithoutRemoteCall ==
  /\ (Parsed /\ req.dataKind = "ok" /\ ~HasFiles) =>
        /\ Len(calls) = 0
        /\ Responded => res.status = 400
  /\ res.status = 400 => Len(calls) = 0

C2_Witness ==
  /\ Responded /\ Parsed /\ req.dataKind = "ok" /\ ~HasFiles
  /\ res.status = 400 /\ res.sent = 1

\* patientInfo.name is missing, empty, or whitespace only
NameMissingOrBlank(patientInfo) ==
  \/ ~patientInfo.def
  \/ ~patientInfo.name.def
  \/ \A i \in 1..Len(patientInfo.name.v) : patientInfo.name.v[i] \in Whitespace

\* C3: a POST with at least one file whose patientInfo.name is missing, empty
\* or whitespace only is answered 400 and the remote service is not invoked.
C3_BlankNameIs400 ==
  (Parsed /\ req.dataKind = "ok" /\ HasFiles
     /\ NameMissingOrBlank(req.data.patientInfo)) =>
        /\ Len(calls) = 0
        /\ Responded => res.status = 400

IsFailedPdf(f) == getMimeType(f.originalFilename) = <<"application/", "pdf">> /\ f.fault # "none"
\* exactly one uploaded file is a PDF whose extraction fails, all others succeed
OnePdfFailsOthersSucceed ==
  /\ Len(req.files) >= 2
  /\ \E i \in 1..Len(req.files) :
       /\ IsFailedPdf(req.files[i])
       /\ \A j \in 1..Len(req.files) : j # i => req.files[j].fault = "none"

TextContains(t, tok) == \E k \in 1..Len(t) : t[k] = tok

\* C4: when one PDF fails text extraction and the other files succeed, the
\* request reaches the remote invocation and the text sent to the remote
\* service contains "Could not extract text from PDF".
C4_PlaceholderReachesPrompt ==
  (OnePdfFailsOthersSucceed /\ pc \in {"text", "backoff", "catch", "cleanup", "done"}
     /\ entered > 0) =>
        /\ Len(calls) > 0
        /\ AllCalls(LAMBDA c : TextContains(c.text, "Could not extract text from PDF"))

\* C5: after a call of the remote service that succeeds no further call is
\* made; two 429 failures on the first two attempts are always followed by a
\* third attempt, and when that one succeeds the response is 200 after
\* exactly 3 calls.
C5_SuccessOnThirdAttempt ==
  /\ \A i \in 1..Len(calls) : calls[i].kind # "error" => i = Len(calls)
  /\ (Len(calls) = 2 /\ Is429(calls[1]) /\ Is429(calls[2])) =>
        pc \in {"backoff", "attempting"}
  /\ (Responded /\ Len(calls) >= 3 /\ Is429(calls[1]) /\ Is429(calls[2])
        /\ calls[3].kind = "ok") =>
        (res.status = 200 /\ Len(calls) = 3)

C5_Witness ==
  /\ Responded /\ res.status = 200 /\ Len(calls) = 3
  /\ Is429(calls[1]) /\ Is429(calls[2]) /\ calls[3].kind = "ok"

\* every attempt up to the ceiling was answered 429
All429ToCeiling == entered > 0 /\ Len(calls) = maxRetries /\ AllCalls(Is429)

\* C6 as stated: with 429 on every attempt the response is 429 and retryAfter
\* is the larger of the service-provided delay and the backoff delay computed
\* for the last attempt (both in seconds).
C6_RetryAfterIsLargerOfHintAndBackoff ==
  (Responded /\ All429ToCeiling) =>
     LET last == calls[Len(calls)]
         hint == ApiRetryDelay(last.error)
         backoff == (baseDelay * Pow2(last.attempt)) \div 1000
         hinted == IF hint.def /\ hint.v # <<>>
                   THEN parseInt(ReplaceFirst(hint.v, "s")) ELSE 0
     IN /\ res.status = 429
        /\ res.body.retryAfter = IF hinted >= backoff THEN hinted ELSE backoff

\* C6 amended: with 429 on every attempt the response is 429 and retryAfter is
\* the retry delay of the last error in whole seconds when the error carries
\* one, and 300 when it carries none; the backoff delay plays no part.
C6_RetryAfterIsHintOrDefault ==
  (Responded /\ All429ToCeiling) =>
     LET last == calls[Len(calls)]
         hint == ApiRetryDelay(last.error)
     IN /\ res.status = 429
        /\ "retryAfter" \in res.body.keys
        /\ res.body.retryAfter = IF hint.def /\ hint.v # <<>>
                                 THEN parseInt(ReplaceFirst(hint.v, "s")) ELSE 300

C6_Witness ==
  /\ Responded /\ All429ToCeiling /\ res.status = 429
  /\ ApiRetryDelay(calls[Len(calls)].error).def
  /\ res.body.retryAfter = 7

\* C7: with 503 on every attempt the handler gives up only after exactly 3
\* calls, then responds 503 with a numeric retryAfter, and never responds 500.
C7_Always503Gives503 ==
  (Len(calls) > 0 /\ AllCalls(Is503)) =>
     /\ res.status # 500
     /\ pc \in {"catch", "done"} => Len(calls) = 3
     /\ Responded =>
          /\ res.status = 503
          /\ "retryAfter" \in res.body.keys
          /\ res.body.retryAfter \in Nat

C7_Witness ==
  /\ Responded /\ Len(calls) = 3 /\ AllCalls(Is503) /\ res.status = 503

\* an uploaded file that is an image by extension and can be read
IsReadableImage(f) ==
  /\ SplitPop(toLowerCase(f.originalFilename)) \in
       {<<"j", "p", "g">>, <<"j", "p", "e", "g">>, <<"p", "n", "g">>}
  /\ f.fault # "read"
ReadableImages == {i \in 1..Len(req.files) : IsReadableImage(req.files[i])}

IsPrefix(p, t) == Len(p) <= Len(t) /\ \A k \in 1..Len(p) : t[k] = p[k]

\* C8: every remote call carries the composed text prompt plus one attachment
\* per successfully processed image file, and the success response reports
\* filesAnalyzed = that number of images (one image and one PDF: 1).
C8_FilesAnalyzedCountsImages ==
  Len(calls) > 0 =>
    LET n == Cardinality(ReadableImages)
    IN /\ \A k \in 1..Len(calls) :
            /\ Len(calls[k].imageParts) = n
            /\ IsPrefix(enhancedPrompt, calls[k].text)
            /\ Len(enhancedPrompt) > 0
       /\ (Responded /\ res.status = 200) => res.body.filesAnalyzed = n

C8_Witness ==
  /\ Responded /\ res.status = 200
  /\ Len(req.files) = 2
  /\ Cardinality(ReadableImages) = 1
  /\ \E i \in 1..2 : getMimeType(req.files[i].originalFilename) = <<"application/", "pdf">>
                      /\ req.files[i].fault = "none"
  /\ res.body.filesAnalyzed = 1
  /\ Len(calls[1].imageParts) = 1

\* the request passes the handler's validation
ValidationPasses ==
  /\ Parsed /\ req.dataKind = "ok" /\ HasFiles
  /\ req.data.patientInfo.def
  /\ req.data.patientInfo.name.def
  /\ req.data.patientInfo.name.v # <<>>

\* C9: one request makes at most 3 remote calls, enters retryWithBackoff at
\* most once, and when validation passes it has entered retryWithBackoff
\* exactly once and made at least 1 call by the time it responds.
C9_CallsBetweenOneAndMaxRetries ==
  /\ entered <= 1
  /\ Len(calls) <= 3
  /\ entered = 0 => Len(calls) = 0
  /\ (Responded /\ ValidationPasses) => (entered = 1 /\ Len(calls) >= 1)

\* a failure that is not 429, not 503 and not status >= 500
IsFatal(c) ==
  /\ c.kind = "error"
  /\ c.error.hasStatus => (c.error.status < 500 /\ c.error.status # 429)

\* C10: a fatal remote failure is never retried: it is the last call, no
\* backoff wait follows it, and the response is 500.
C10_FatalIsNeverRetried ==
  \A i \in 1..Len(calls) :
    IsFatal(calls[i]) =>
      /\ i = Len(calls)
      /\ Len(waits) = i - 1
      /\ pc \in {"catch", "done"}
      /\ Responded => res.status = 500

C10_Witness ==
  /\ Responded /\ Len(calls) = 2 /\ IsFatal(calls[2]) /\ ~calls[2].error.hasStatus
  /\ Len(waits) = 1 /\ res.status = 500

\* the last remote call made ended in an error
LastCallFailed == Len(calls) > 0 /\ calls[Len(calls)].kind = "error"
LastError == calls[Len(calls)].error

\* C11: the response of a request whose last attempt failed depends on the
\* error of that attempt alone: 429 iff it is a 429, 503 iff it is a 503, 500
\* otherwise, with retryAfter taken from that error; the errors of earlier
\* attempts play no part.
C11_LastErrorDecidesResponse ==
  (Responded /\ LastCallFailed) =>
     LET e == LastError
         hint == ApiRetryDelay(e)
     IN /\ res.status = 429 <=> (e.hasStatus /\ e.status = 429)
        /\ res.status = 503 <=> (e.hasStatus /\ e.status = 503)
        /\ res.status \in {429, 503, 500}
        /\ res.status = 503 => res.body.retryAfter = 120
        /\ res.status = 429 =>
             res.body.retryAfter = IF hint.def /\ hint.v # <<>>
                                   THEN parseInt(ReplaceFirst(hint.v, "s")) ELSE 300
        /\ res.status = 500 => "retryAfter" \notin res.body.keys
        /\ error = e

C11_Witness ==
  /\ Responded /\ Len(calls) = 3
  /\ Is503(calls[1]) /\ Is429(calls[2])
  /\ calls[3].kind = "error" /\ calls[3].error.hasStatus /\ calls[3].error.status = 500
  /\ res.status = 500

\* C12: a request has at most one response; a finished request has exactly
\* one; no response has been sent while the handler has not finished, in
\* particular while an attempt or a backoff wait is in progress.
C12_ExactlyOneResponse ==
  /\ res.sent <= 1
  /\ Responded <=> res.sent = 1
  /\ pc \in {"attempting", "backoff", "text", "catch", "cleanup"} => res.sent = 0
  /\ res.sent = 0 => res.status = 0

C12_Witness ==
  /\ Responded /\ res.sent = 1 /\ Len(calls) = 3 /\ Len(waits) = 2 /\ res.status = 200

\* C13: every request eventually reaches its terminal response, given that
\* each remote call returns or fails and each backoff timer fires.
C13_EveryRequestResponds == <>(pc = "done" /\ res.sent = 1)

C13_Witness ==
  /\ pc = "done" /\ res.sent = 1 /\ Len(waits) = 2 /\ attempt = 2
  /\ calls[3].kind = "error" /\ res.status = 429

ErrorStatuses == {400, 405, 429, 500, 503}

\* C14: every error response (400, 405, 429, 500, 503) has a `message` field,
\* and its text differs from the `details` field.
C14_ErrorResponsesCarryMessage ==
  (Responded /\ res.status \in ErrorStatuses) =>
     /\ "message" \in res.body.keys
     /\ res.body.message # <<>>
     /\ res.body.message # <<res.body.details>>

\* C15: in the 200 response filesUploaded is the number of files of the
\* submission, dropped files included.
C15_FilesUploadedCountsEveryUpload ==
  (Responded /\ res.status = 200) => res.body.filesUploaded = Len(req.files)

\* C16: a request whose method is not POST is answered 405; its form is never
\* parsed, none of its files is stored, read or processed, and the remote
\* service is not invoked.
C16_NonPostIs405 ==
  req.method # "POST" =>
     /\ pc \in {"start", "done"}
     /\ disk = {}
     /\ processedFiles = <<>> /\ extractedTextContent = <<>>
     /\ entered = 0 /\ Len(calls) = 0
     /\ Responded => (res.status = 405 /\ res.body.error = "Method not allowed")

C16_Witness ==
  /\ Responded /\ req.method = "GET" /\ res.status = 405
  /\ Len(req.files) > 0 /\ req.parse = "ok" /\ req.dataKind = "ok"

\* the `data` field is missing, is not JSON or is null (reading it throws), or
\* it is JSON without any property (a number, a string)
DataUnusable ==
  \/ req.dataKind = "invalid"
  \/ /\ ~req.data.patientInfo.def
     /\ ~req.data.medicalData.def
     /\ ~req.data.location.def

\* C17: a POST whose `data` field is missing, is not valid JSON or is not an
\* object is answered 400 and the remote service is not invoked.
C17_BadDataIs400 ==
  (Parsed /\ DataUnusable) =>
     /\ entered = 0 /\ Len(calls) = 0
     /\ pc \in {"start", "parse", "json", "validate", "done"}
     /\ Responded => res.status = 400
     /\ (Responded /\ req.dataKind = "invalid") =>
           res.body.error = "Invalid form data format"

C17_Witness ==
  /\ Responded /\ Parsed /\ req.dataKind = "invalid" /\ res.status = 400
  /\ Len(req.files) > 0
  /\ req.data.patientInfo.def /\ req.data.patientInfo.name.def
  /\ req.data.patientInfo.name.v = <<"A", "l">>

\* a file whose processing throws out of its branch: an image or a text file
\* that cannot be read (a PDF that fails keeps its placeholder entry), or a
\* file whose type lookup gives no string
IsSkipped(f) ==
  \/ /\ f.fault = "read"
     /\ SplitPop(toLowerCase(f.originalFilename)) # <<"p", "d", "f">>
  \/ SplitPop(toLowerCase(f.originalFilename)) \in ObjectPrototypeKeys

\* the names of the files among the first n uploads that are not skipped
RECURSIVE KeptNames(_)
KeptNames(n) ==
  IF n = 0 THEN <<>>
  ELSE IF IsSkipped(req.files[n]) THEN KeptNames(n - 1)
  ELSE Append(KeptNames(n - 1), req.files[n].originalFilename)

ProcessedNames == [i \in 1..Len(processedFiles) |-> processedFiles[i].name]

HasHint(e) == ApiRetryDelay(e).def /\ ApiRetryDelay(e).v # <<>>
HintSeconds(e) == parseInt(ReplaceFirst(ApiRetryDelay(e).v, "s"))

\* C20: the k-th wait follows the k-th call (attempt index k - 1); when that
\* call failed with 429 the wait is max(seconds * 1000, 5000 * 2^(k-1)) ms if
\* the error carries a RetryInfo delay of `seconds` (whole seconds) and
\* 5000 * 2^(k-1) ms if it carries none.
C20_Wait429IsMaxOfHintAndBackoff ==
  \A k \in 1..Len(waits) :
    /\ k <= Len(calls)
    /\ calls[k].attempt = k - 1
    /\ Is429(calls[k]) =>
         LET backoff == 5000 * 2^(k - 1)
             e == calls[k].error
         IN waits[k] = IF HasHint(e) /\ HintSeconds(e) * 1000 >= backoff
                       THEN HintSeconds(e) * 1000
                       ELSE backoff

C20_Witness ==
  /\ Len(waits) = 2 /\ Len(calls) = 3
  /\ Is429(calls[1]) /\ HasHint(calls[1].error) /\ waits[1] = 7000
  /\ Is429(calls[2]) /\ HasHint(calls[2].error) /\ waits[2] = 10000

\* a failure with status 503 or any other status >= 500
Is5xx(c) == c.kind = "error" /\ c.error.hasStatus /\ c.error.status >= 500

\* C21: when the k-th call (attempt index k - 1) fails with 503 or another
\* status >= 500 and attempts remain (k < 3), the wait scheduled after it is
\* exactly 5000 * 2^(k-1) ms whatever retry delay the error carries, and the
\* next attempt follows: the handler is waiting, attempting, or has already
\* made call k + 1.
C21_Wait5xxIsBackoffOnly ==
  \A k \in 1..Len(calls) :
    (Is5xx(calls[k]) /\ k < 3) =>
       /\ calls[k].attempt = k - 1
       /\ Len(waits) >= k
       /\ waits[k] = baseDelay * 2^(k - 1)
       /\ baseDelay = 5000
       /\ k = Len(calls) => pc \in {"backoff", "attempting"}

C21_Witness ==
  /\ Len(calls) = 3 /\ Len(waits) = 2
  /\ Is5xx(calls[1]) /\ HasHint(calls[1].error) /\ HintSeconds(calls[1].error) = 31
  /\ Is503(calls[2])
  /\ waits = <<5000, 10000>>

\* C22: a request whose last attempt failed with 429 has used all 3 attempts
\* and is answered 429; the response's retryAfter is a number: the retry delay
\* of that last error in seconds when it carries one, 300 when it carries
\* none (whatever the earlier errors carried).
C22_RetryAfterIsHintOr300 ==
  (Responded /\ LastCallFailed /\ Is429(calls[Len(calls)])) =>
     /\ Len(calls) = 3
     /\ res.status = 429
     /\ "retryAfter" \in res.body.keys
     /\ res.body.retryAfter \in Nat
     /\ HasHint(LastError) => res.body.retryAfter = HintSeconds(LastError)
     /\ ~HasHint(LastError) => res.body.retryAfter = 300

\* the default is used although an earlier 429 carried a retry delay
C22_Witness ==
  /\ Responded /\ Len(calls) = 3 /\ res.status = 429
  /\ Is429(calls[2]) /\ HasHint(calls[2].error)
  /\ Is429(calls[3]) /\ ~HasHint(calls[3].error)
  /\ res.body.retryAfter = 300

\* a failure with a status >= 500 other than 503
IsOther5xx(c) == Is5xx(c) /\ c.error.status # 503

\* C23: with a status >= 500 other than 503 on every attempt the handler gives
\* up only after exactly 3 calls, then responds 500 with the error "Failed to
\* analyze medical data" and the message of the last error as details; it
\* never responds 503 or 429.
C23_Always5xxGives500 ==
  (Len(calls) > 0 /\ AllCalls(IsOther5xx)) =>
     /\ res.status \notin {503, 429}
     /\ pc \in {"catch", "done"} => (Len(calls) = 3 /\ Len(waits) = 2)
     /\ Responded =>
          /\ res.status = 500
          /\ res.body.keys = {"error", "details"}
          /\ res.body.error = "Failed to analyze medical data"
          /\ res.body.details = LastError.message

C23_Witness ==
  /\ Responded /\ Len(calls) = 3 /\ AllCalls(IsOther5xx)
  /\ res.status = 500 /\ res.body.details = "internal"

\* C24: every attempt is made on the fast tier: the k-th call has attempt index
\* k - 1 (the first is attempt 0 on the fast tier), is handed useFlashModel =
\* true and goes to gemini-1.5-flash, whatever failures came before it.
C24_TierIsAlwaysFast ==
  \A k \in 1..Len(calls) :
    /\ calls[k].attempt = k - 1
    /\ calls[k].useFlashModel
    /\ calls[k].model = "gemini-1.5-flash"

C24_Witness ==
  /\ Responded /\ Len(calls) = 3
  /\ Is429(calls[1]) /\ Is503(calls[2]) /\ IsOther5xx(calls[3])
  /\ calls[3].model = "gemini-1.5-flash"

\* the error e with the quota identifiers of its QuotaFailure detail replaced
SetQuotaIds(e, ids) ==
  [e EXCEPT !.errorDetails =
     [i \in 1..Len(e.errorDetails) |->
        IF e.errorDetails[i].type = QuotaFailureType
        THEN QuotaFailure(ids) ELSE e.errorDetails[i]]]

QuotaIdVariants ==
  { << <<"Requests", "PerDay">> >>, << <<"Requests", "PerMinute">> >>,
    << <<"Tokens", "Daily">> >>, << >> }

\* C25: the quota identifier of a 429 error decides nothing but the message.
\* Whenever a call has just failed with 429, the retry decision taken and the
\* wait scheduled are the ones that any other quota identifier in that error
\* would have given, and the 429 response would have the same status,
\* retryAfter and every other field except `message`.  (Each step depends on
\* the current error and attempt only, so two runs that differ in quota
\* identifiers alone agree step by step.)
C25_QuotaKindChangesOnlyMessage ==
  /\ (pc \in {"backoff", "catch"} /\ Len(calls) > 0 /\ Is429(calls[Len(calls)])) =>
       LET c == calls[Len(calls)]
       IN \A ids \in QuotaIdVariants :
            LET d == OnError(SetQuotaIds(c.error, ids), c.attempt, maxRetries, baseDelay)
            IN /\ d.retry <=> pc = "backoff"
               /\ d.retry => (Len(waits) = Len(calls) /\ waits[Len(waits)] = d.wait)
               /\ ~d.retry => Len(waits) = Len(calls) - 1
  /\ (Responded /\ res.status = 429) =>
       \A ids \in QuotaIdVariants :
         LET t == Translate(SetQuotaIds(error, ids))
         IN /\ t.status = res.status
            /\ t.body.retryAfter = res.body.retryAfter
            /\ [t.body EXCEPT !.message = <<>>] = [res.body EXCEPT !.message = <<>>]

\* a daily-quota 429 response whose message would differ for a per-minute one
C25_Witness ==
  /\ Responded /\ res.status = 429 /\ Len(calls) = 3 /\ AllCalls(Is429)
  /\ IsDaily(error) /\ IsDaily(calls[1].error)
  /\ Translate(SetQuotaIds(error, << <<"Requests", "PerMinute">> >>)).body.message
       # res.body.message

\* the attachments of the readable images among the first n uploads, in
\* upload order
RECURSIVE ReadableImageParts(_)
ReadableImageParts(n) ==
  IF n = 0 THEN <<>>
  ELSE IF IsReadableImage(req.files[n])
  THEN Append(ReadableImageParts(n - 1),
              [data |-> <<"base64[">> \o req.files[n].content \o <<"]">>,
               mimeType |-> getMimeType(req.files[n].originalFilename)])
  ELSE ReadableImageParts(n - 1)

MultimodalSuffix == <<"\n\n**ANALYZE THESE MEDICAL IMAGES AND TEXT:**">>

\* C26: a remote call is multimodal iff at least one image was processed. Then
\* every call carries the attachments of all readable images in upload order
\* next to the prompt text; without a readable image the call carries the
\* prompt text and no attachment.  The composed prompt, to which only the two
\* fixed instruction texts are added, holds no image data.
C26_MultimodalIffImage ==
  /\ pc = "invoke" =>
       LET parts == ReadableImageParts(Len(req.files))
           payload == {parts[i].data[j] : i \in 1..Len(parts), j \in 1..3}
       IN \A j \in 1..Len(enhancedPrompt) : enhancedPrompt[j] \notin payload
  /\ Len(calls) > 0 =>
       LET parts == ReadableImageParts(Len(req.files))
           text == IF parts # <<>>
                   THEN enhancedPrompt \o analysisInstruction \o MultimodalSuffix
                   ELSE enhancedPrompt \o analysisInstruction
       IN /\ Len(parts) > 0 <=> Len(imageFiles) > 0
          /\ \A k \in 1..Len(calls) :
               /\ calls[k].imageParts = parts
               /\ calls[k].text = text

\* two images of different type, uploaded and sent png first
C26_Witness ==
  /\ Len(calls) = 2 /\ Len(req.files) = 2
  /\ req.files[1].originalFilename = <<"b", ".", "p", "n", "g">>
  /\ req.files[2].originalFilename = <<"a", ".", "J", "P", "G">>
  /\ Len(calls[2].imageParts) = 2
  /\ calls[2].imageParts[1].mimeType = <<"image/", "png">>
  /\ calls[2].imageParts[2] = [data |-> <<"base64[", "px1", "]">>,
                               mimeType |-> <<"image/", "jpeg">>]

\* a is a subsequence of b: a's entries occur in b in the same order, each at
\* a position of its own
RECURSIVE IsSubseq(_, _)
IsSubseq(a, b) ==
  IF a = <<>> THEN TRUE
  ELSE IF b = <<>> THEN FALSE
  ELSE IF Head(a) = Head(b) THEN IsSubseq(Tail(a), Tail(b))
  ELSE IsSubseq(a, Tail(b))

\* the texts found in t from position i on between a token of `openers` and
\* the next token of `closers`, in order of occurrence
RECURSIVE LabelledFrom(_, _, _, _)
LabelledFrom(t, i, openers, closers) ==
  IF i > Len(t) THEN <<>>
  ELSE IF t[i] \in openers
  THEN LET n == CHOOSE k \in (i + 1)..Len(t) :
                  t[k] \in closers /\ \A j \in (i + 1)..(k - 1) : t[j] \notin closers
       IN <<SubSeq(t, i + 1, n - 1)>> \o LabelledFrom(t, n + 1, openers, closers)
  ELSE LabelledFrom(t, i + 1, openers, closers)
LabelledNames(t, openers, closers) == LabelledFrom(t, 1, openers, closers)

\* the file names of the labelled blocks of a text, and of the manifest lines
BlockNames(t) ==
  LabelledNames(t, {"\n\n=== PDF Content from ", "\n\n=== Text Content from "}, {" ===\n"})
ManifestNames(t) == LabelledNames(t, {"- "}, {" ("})

UploadNames == [i \in 1..Len(req.files) |-> req.files[i].originalFilename]

\* an upload whose text is extracted: not an image, its type lookup gives a
\* string, and nothing fails on it
YieldsText(f) ==
  /\ SplitPop(toLowerCase(f.originalFilename)) \notin
       {<<"j", "p", "g">>, <<"j", "p", "e", "g">>, <<"p", "n", "g">>}
         \cup ObjectPrototypeKeys
  /\ f.fault = "none"
RECURSIVE TextNames(_)
TextNames(n) ==
  IF n = 0 THEN <<>>
  ELSE IF YieldsText(req.files[n])
  THEN Append(TextNames(n - 1), req.files[n].originalFilename)
  ELSE TextNames(n - 1)

\* C27: upload order is kept throughout. While the file loop runs and when it
\* has ended, processedFiles is a subsequence of the uploads seen with at most
\* one entry per upload, and the labelled blocks of the extracted-text buffer
\* are those of the uploads that yielded text, in upload order; in the
\* composed prompt the manifest lines follow processedFiles and the blocks
\* follow the buffer.  (No later step writes any of the three.)
C27_UploadOrderIsPreserved ==
  (idx > 0 /\ pc \in {"files", "pdf", "invoke"}) =>
    LET seen == IF pc \in {"files", "pdf"} THEN idx - 1 ELSE Len(req.files)
        blocks == BlockNames(extractedTextContent)
    IN /\ Len(processedFiles) <= seen
       /\ IsSubseq(ProcessedNames, SubSeq(UploadNames, 1, seen))
       /\ blocks = TextNames(seen)
       /\ IsSubseq(blocks, UploadNames)
       /\ pc = "invoke" =>
            /\ ManifestNames(enhancedPrompt) = ProcessedNames
            /\ BlockNames(enhancedPrompt) = blocks

\* a text file before a PDF: two blocks and two manifest lines in that order
C27_Witness ==
  /\ Responded /\ res.status = 200
  /\ UploadNames = << <<"p", ".", "p", "n", "g", ".", "t", "x", "t">>,
                      <<"r", ".", "p", "d", "f">> >>
  /\ ManifestNames(enhancedPrompt) = UploadNames
  /\ BlockNames(enhancedPrompt) = UploadNames

\* the chunks of the prompt after which a patient field is rendered
FieldLabels ==
  [age |-> {"\n- Age: "},
   gender |-> {"\n- Gender: "},
   symptoms |-> {"\n- Symptoms: "},
   urgency |-> {"\n- Urgency Level: ",
                "\n6. ... 8. **Best Time to Visit** based on urgency level: "}]

\* C28: in the composed prompt each of age, gender, symptoms and urgency that
\* the submission does not give is rendered as "Not specified" at every place
\* where the field is rendered.
C28_AbsentFieldsRenderNotSpecified ==
  enhancedPrompt # <<>> =>
    \A field \in DOMAIN FieldLabels :
      ~Truthy(req.data.patientInfo[field]) =>
        \A k \in 1..(Len(enhancedPrompt) - 1) :
          enhancedPrompt[k] \in FieldLabels[field] =>
            enhancedPrompt[k + 1] = "Not specified"

\* the lower-cased text after the last '.' of a file name
Extension(name) == SplitPop(toLowerCase(name))

MappedTag ==
  [pdf |-> <<"application/", "pdf">>, jpg |-> <<"image/", "jpeg">>,
   jpeg |-> <<"image/", "jpeg">>, png |-> <<"image/", "png">>,
   dcm |-> <<"application/", "dicom">>]
ExtensionText ==
  [pdf |-> <<"p", "d", "f">>, jpg |-> <<"j", "p", "g">>,
   jpeg |-> <<"j", "p", "e", "g">>, png |-> <<"p", "n", "g">>,
   dcm |-> <<"d", "c", "m">>]

\* C29: for every upload the file loop has handled, getMimeType of its name is
\* the mapped tag when the extension is pdf, jpg, jpeg, png or dcm and
\* application/octet-stream for every other extension; and when the upload is
\* readable and its tag is neither image/* nor application/pdf, processedFiles
\* has an entry that holds its content as text.
C29_MimeMappingAndTextPath ==
  \A i \in 1..Len(req.files) :
    LET f == req.files[i]
        tag == getMimeType(f.originalFilename)
    IN /\ \A e \in DOMAIN MappedTag :
            (idx > i /\ Extension(f.originalFilename) = ExtensionText[e])
               => tag = MappedTag[e]
       /\ (idx > i /\ \A e \in DOMAIN MappedTag :
                        Extension(f.originalFilename) # ExtensionText[e])
            => tag = OctetStream
       /\ (idx > i /\ f.fault = "none" /\ tag[1] # "image/"
             /\ tag # <<"application/", "pdf">>) =>
            \E p \in 1..Len(processedFiles) :
              /\ processedFiles[p].name = f.originalFilename
              /\ processedFiles[p].isText
              /\ processedFiles[p].textContent = f.content

\* C30: a deletion that fails during cleanup is not propagated. Once the
\* answer of the remote service has been read, the handler never enters its
\* catch block: whatever files the cleanup could not delete, the request ends
\* with the 200 response, and the files it could delete are gone.
C30_CleanupFailureStill200 ==
  result = "ok" =>
     /\ pc \in {"text", "cleanup", "done"}
     /\ error = NoError
     /\ disk \subseteq 1..Len(req.files)
     /\ Responded => (res.status = 200 /\ res.sent = 1)

\* the first file could not be deleted, the second was, the response is 200
C30_Witness ==
  /\ Responded /\ result = "ok" /\ res.status = 200
  /\ Len(req.files) = 2 /\ disk = {1}

\* C35: when the multipart parser throws (its error carries no status), the
\* handler goes from the parse straight to its catch block and responds 500
\* with the generic error, never 400; no file is processed and the remote
\* service is not invoked.
C35_ParseFailureIs500 ==
  (req.method = "POST" /\ req.parse = "throws") =>
     /\ pc \in {"start", "parse", "catch", "done"}
     /\ entered = 0 /\ Len(calls) = 0 /\ processedFiles = <<>>
     /\ pc \in {"catch", "done"} => (error = ParseError /\ ~error.hasStatus)
     /\ Responded =>
          /\ res.status = 500
          /\ res.body.error = "Failed to analyze medical data"
          /\ res.body.details = ParseError.message

C35_Witness ==
  /\ Responded /\ req.method = "POST" /\ req.parse = "throws"
  /\ res.status = 500 /\ res.sent = 1
  /\ Len(req.files) > 0 /\ req.dataKind = "ok"

(* -------------------- properties of two requests in flight ------------- *)
RECURSIVE ProcessAll(_)
\* the file loop over a whole upload
ProcessAll(files) ==
  IF files = <<>>
  THEN [pf |-> <<>>, text |-> <<>>]
  ELSE LET h == ProcessFile(Head(files))
           t == ProcessAll(Tail(files))
       IN [pf |-> h.push \o t.pf, text |-> h.text \o t.text]

\* the closure the handler builds for request r
FnOf(r) ==
  LET p == ProcessAll(r.files)
  IN MakeFn(EnhancedPrompt(r.data, p.pf, p.text), ImageFilter(p.pf))

RECURSIVE AloneFrom(_, _, _, _)
\* what a valid request r ends with when it is the only one in flight and its
\* remote calls have the outcomes os, from attempt att on after the waits ws:
\* the response, the waits, and the number of calls made (status 0 when the
\* outcomes do not end the run)
AloneFrom(r, os, att, ws) ==
  LET o == os[att + 1]
      p == ProcessAll(r.files)
      t == IF o.kind = "blocked" THEN Translate(TextError) ELSE Translate(o.error)
      d == OnError(o.error, att, 3, 5000)
  IN IF o.kind = "ok"
     THEN [status |-> 200,
           body |-> SuccessBody(Interpolate(r.data.patientInfo.name), p.pf,
                                ImageFilter(p.pf)),
           waits |-> ws, used |-> att + 1]
     ELSE IF o.kind = "error" /\ d.retry
     THEN IF att + 1 < Len(os)
          THEN AloneFrom(r, os, att + 1, Append(ws, d.wait))
          ELSE [status |-> 0, body |-> EmptyBody, waits |-> Append(ws, d.wait),
                used |-> att + 1]
     ELSE [status |-> t.status, body |-> t.body, waits |-> ws, used |-> att + 1]

OutcomesOf(t) == [k \in 1..Len(t.calls) |-> Outcome(t.calls[k].kind, t.calls[k].error)]

InFlight == {Locals} \cup {suspended[i] : i \in 1..Len(suspended)}

\* C31: two requests in flight at once do not interfere. Every remote call of
\* an invocation, running or suspended, carries its own attempt index and the
\* closure of that invocation, which is the closure built from its own request
\* whenever it is about to call; and the invocation that has called the remote
\* service and has ended has exactly the response and the waits it has when it
\* is the only request in flight and its calls have the same outcomes.
C31_ConcurrentRequestsDoNotInterfere ==
  /\ \A t \in InFlight :
       /\ Len(t.calls) <= 3
       /\ \A k \in 1..Len(t.calls) : t.calls[k].attempt = k - 1
       /\ t.pc = "attempting" => t.attempt = Len(t.calls)
       /\ t.pc = "backoff" => t.attempt + 1 = Len(t.calls)
       /\ \A k \in 1..Len(t.calls) :
            /\ t.calls[k].text = t.fn.text
            /\ t.calls[k].imageParts = t.fn.imageParts
  /\ pc = "attempting" => fn = FnOf(req)
  /\ (pc = "done" /\ Len(calls) >= 1) =>
       LET a == AloneFrom(req, OutcomesOf(Locals), 0, <<>>)
       IN /\ res = [sent |-> 1, status |-> a.status, body |-> a.body]
          /\ waits = a.waits
          /\ Len(calls) = a.used
  /\ \A i \in 1..Len(suspended) :
       suspended[i].req # req /\ suspended[i].req \in {ConcurrentRequests[1], ConcurrentRequests[2]}

\* the first request has answered 200 on its third call while the second one,
\* two calls made, is waiting for its backoff timer
C31_Witness ==
  /\ req = ConcurrentRequests[1] /\ pc = "done" /\ res.status = 200
  /\ Len(calls) = 3 /\ Len(waits) = 2
  /\ Len(suspended) = 1 /\ suspended[1].req = ConcurrentRequests[2]
  /\ suspended[1].pc = "backoff" /\ Len(suspended[1].calls) = 2

(* ---------------------- properties of retryWithBackoff ----------------- *)
Returned == pc = "text"
Threw == pc = "catch"

\* C33: with maxRetries >= 1 retryWithBackoff returns only the value of a
\* call of fn that succeeded (its last call) and throws only the error of its
\* last call, which failed; it never returns undefined.  With maxRetries <= 0
\* it makes no call, never throws, and returns undefined.
C33_ReturnsSuccessOrThrowsLastError ==
  /\ maxRetries >= 1 =>
       /\ result # "undefined"
       /\ Returned => /\ Len(calls) >= 1
                      /\ calls[Len(calls)].kind # "error"
                      /\ result = calls[Len(calls)].kind
                      /\ error = NoError
       /\ Threw => /\ LastCallFailed
                   /\ error = LastError
                   /\ result = "none"
  /\ maxRetries <= 0 =>
       /\ Len(calls) = 0 /\ Len(waits) = 0
       /\ ~Threw
       /\ Returned => result = "undefined"

C33_Witness ==
  /\ maxRetries = 0 /\ Returned /\ result = "undefined" /\ Len(calls) = 0

\* C34: a wait occurs only between two attempts. Before an attempt and during
\* a wait there are as many waits as calls, and a wait is only scheduled when
\* a further attempt is left; once retryWithBackoff has ended after at least
\* one call there is one wait less than calls; and a failure at attempt index
\* maxRetries - 1 is thrown at once, whatever its status.
C34_WaitsAreCallsMinusOne ==
  /\ pc \in {"attempting", "backoff"} => Len(waits) = Len(calls)
  /\ pc = "backoff" => Len(calls) < maxRetries
  /\ pc = "attempting" => attempt = Len(calls)
  /\ ((Returned \/ Threw) /\ Len(calls) >= 1) => Len(waits) = Len(calls) - 1
  /\ \A k \in 1..Len(calls) :
       (calls[k].kind = "error" /\ calls[k].attempt = maxRetries - 1) =>
          (k = Len(calls) /\ Threw /\ error = calls[k].error)

\* four calls, the last one a 429 thrown without a wait
C34_Witness ==
  /\ maxRetries = 4 /\ Threw /\ Len(calls) = 4 /\ Len(waits) = 3
  /\ Is429(calls[4]) /\ calls[4].attempt = 3

(* -------------------------- properties of the page --------------------- *)
\* the last submission of the page got a response with a JSON body and a
\* status outside 200..299
LastFetchNotOk ==
  page.pc = "idle" /\ page.lastFetch.kind = "json" /\ ~ResponseOk(page.lastFetch)

\* C32: after a non-OK response of the API (503, 429 or other) the error
\* state displayed is never network_error: it is the specific one
\* (service_unavailable, rate_limited, general_error) until it is dismissed.
C32_SpecificErrorIsKept ==
  LastFetchNotOk =>
     /\ page.errorState # "network_error"
     /\ page.errorState \in {ErrorTypeFor(page.lastFetch.status), "null"}

\* the name is empty or consists of whitespace only
NameBlank(name) == \A i \in 1..Len(name) : name[i] \in Whitespace

\* C36: a submit event with zero selected files or with an empty or
\* whitespace-only patient name sends no request, and leaves the loading
\* flag, the analysis result and the error state as they were.
C36_InvalidSubmitSendsNothing ==
  [][(/\ Len(page'.submits) = Len(page.submits) + 1
      /\ (page.uploadedFiles = 0 \/ NameBlank(page.patientName)))
       => /\ page'.fetches = page.fetches
          /\ page'.pc = "idle"
          /\ page'.analysisLoading = page.analysisLoading
          /\ page'.analysisResult = page.analysisResult
          /\ page'.errorState = page.errorState]_vars

\* a submission that failed, then a submit with a whitespace-only name: the
\* error of the first is still displayed and only one request was sent
C36_Witness ==
  /\ page.submits = <<"sent", "rejected">>
  /\ page.alert = <<"Please enter the patient name.">>
  /\ page.patientName = <<" ", " ">> /\ page.uploadedFiles > 0
  /\ page.fetches = 1 /\ page.errorState = "network_error"
  /\ ~page.analysisLoading

\* C37: analysisLoading is true exactly while a validated submission is
\* running (from its start to the end of its finally block), and whenever it
\* is true it becomes false again, whether the fetch brought an OK response,
\* a non-OK response, or threw.
C37_LoadingOnlyWhileSubmitting ==
  /\ [](page.analysisLoading <=> page.pc = "awaiting")
  /\ (page.analysisLoading ~> ~page.analysisLoading)

\* the fetch of a submission was rejected and the flag is false again
C37_Witness ==
  /\ page.submits = <<"sent">> /\ page.pc = "idle"
  /\ page.lastFetch.kind = "rejected"
  /\ ~page.analysisLoading

====
